---- MODULE Spec2Model ----
(***************************************************************************)
(* Model of the upload / transcription orchestration core of the audio     *)
(* recorder: R2UploadService (src/src/services/r2UploadService.ts), the    *)
(* main-process IPC handlers (src/unnamed/part_000) and the /transcribe    *)
(* endpoint of the worker (src/external/cloudflare/worker/src/index.js).   *)
(*                                                                         *)
(* One action is one turn of the event loop: the arrival of an IPC         *)
(* command, of a store / endpoint answer or of a timer, followed by all    *)
(* the synchronous code and promise reactions it triggers up to the next   *)
(* await on real I/O.  getSignedUrlPromise does no I/O with the static     *)
(* credentials the constructor passes, so it settles inside the turn that  *)
(* asked for it.  A store request is served by the store in one step and   *)
(* its answer reaches the client in a later step, so answers can overtake  *)
(* each other.                                                             *)
(***************************************************************************)
EXTENDS Integers, Sequences, FiniteSets, TLC

(* ------------------------------ bounds --------------------------------- *)
\* greatest byte length of a recorded buffer
MaxSize == 2
\* number of distinct 8-character uuid prefixes that can be drawn
MaxUid == 2
\* number of times the wall clock advances by one millisecond
MaxClock == 1
\* number of 3 s interval callbacks that run during one transcribe-audio
MaxTicks == 2
\* recordings already in the bucket at startup
MaxStored == 1
\* number of 3 s interval callbacks that run during a transcribe-audio
\* command that has the process to itself
MaxLongTicks == 18

(* -------------------------- program constants -------------------------- *)
\* MaxKeys of the listObjectsV2 request in loadHistory
MaxKeys == 100
\* progress the 500 ms interval of uploadAudio starts from, its step, its cap
TickStart == 25
TickStep == 5
TickCap == 50

R2_FOLDER_NAME == "audio"
TRANSCRIPT_FOLDER == "audio/transcriptions"

NoKey == [folder |-> "", ts |-> 0, uid |-> 0, ext |-> ""]

VARIABLES
  r2Config,        \* which fields of r2Config are non-empty
  r2UploadService, \* "null" or "ready": the main process's service reference
  uploadHistory,   \* this.uploadHistory: sequence of AudioFile object ids
  files,           \* the AudioFile objects, by id
  store,           \* the bucket: its objects [key, size], in key order
  clock,           \* Date.now(), in milliseconds
  proc             \* the calls and commands in flight, by slot

vars == <<r2Config, r2UploadService, uploadHistory, files, store, clock, proc>>

(* ------------------------------- keys ---------------------------------- *)
\* `${R2_FOLDER_NAME}/${timestamp}-${uniqueId}.webm`
MakeKey(now, uniqueId) ==
  [folder |-> R2_FOLDER_NAME, ts |-> now, uid |-> uniqueId, ext |-> "webm"]

\* `${r2FolderName}/transcriptions/${filename}.json`
TranscriptionKey(key) ==
  [folder |-> TRANSCRIPT_FOLDER, ts |-> key.ts, uid |-> key.uid,
   ext |-> "webm.json"]

\* mutant: every object of the listing is taken for a recording
IsAudioKeyAlways(key) == TRUE

\* key.endsWith(".webm") && !key.includes("/transcriptions/")
IsAudioKey(key) == key.ext = "webm" /\ key.folder # TRANSCRIPT_FOLDER

\* the keys under `${R2_FOLDER_NAME}/`
HasPrefix(key) == key.folder \in {R2_FOLDER_NAME, TRANSCRIPT_FOLDER}

\* UTF-8 binary order of the key strings: "audio/<digits>..." sorts before
\* "audio/transcriptions/...", equal-length timestamps sort by instant
FolderRank(f) == IF f = R2_FOLDER_NAME THEN 0 ELSE 1

KeyLess(a, b) ==
  \/ FolderRank(a.folder) < FolderRank(b.folder)
  \/ /\ a.folder = b.folder
     /\ \/ a.ts < b.ts
        \/ a.ts = b.ts /\ a.uid < b.uid
        \/ a.ts = b.ts /\ a.uid = b.uid /\ a.ext = "webm" /\ b.ext # "webm"

\* the timestamp embedded in a key the service generated; "now" otherwise
WellFormedKey(key) == key.ts > 0 /\ key.uid > 0

extractTimestampFromKey(key, now) ==
  IF WellFormedKey(key) THEN key.ts ELSE now

(* ------------------------------ the store ------------------------------ *)
\* the bucket is the sequence of its objects [key, size] in key order
StoreKeys(st) == {st[i].key : i \in 1..Len(st)}
StoreGet(st, key) == st[CHOOSE i \in 1..Len(st) : st[i].key = key]
StorePutObject(st, key, size) ==
  SelectSeq(st, LAMBDA o : KeyLess(o.key, key))
    \o <<[key |-> key, size |-> size]>>
    \o SelectSeq(st, LAMBDA o : KeyLess(key, o.key))
StoreDeleteObject(st, key) == SelectSeq(st, LAMBDA o : o.key # key)

FirstN(s, n) == SubSeq(s, 1, IF Len(s) < n THEN Len(s) ELSE n)

\* listObjectsV2({Prefix, MaxKeys}): one page, in key order
ListObjectsV2(st) ==
  FirstN(SelectSeq(st, LAMBDA o : HasPrefix(o.key)), MaxKeys)

(* --------------------------- sequence helpers -------------------------- *)
Range(s) == {s[i] : i \in 1..Len(s)}

\* the sequence s, with its elements computed once
Evaluated(s) == SubSeq(s, 1, Len(s))

\* s restricted to the elements of the set keep, order kept
FilterSeq(s, keep) == SelectSeq(s, LAMBDA x : x \in keep)

\* where the stable sort by descending timestamp puts the i-th element:
\* after the later ones and after the equally old ones that came before it
SortedIndex(s, i) ==
  1 + Cardinality({j \in 1..Len(s) :
                     \/ s[j].timestamp > s[i].timestamp
                     \/ s[j].timestamp = s[i].timestamp /\ j < i})

\* the elements of s moved to the indexes the sequence to gives them
Permuted(s, to) ==
  Evaluated([k \in 1..Len(s) |-> s[CHOOSE i \in 1..Len(s) : to[i] = k]])

\* Array.prototype.sort((a, b) => time(b) - time(a)), which is stable
SortDesc(s) ==
  Permuted(s, Evaluated([i \in 1..Len(s) |-> SortedIndex(s, i)]))

(* ------------------------------- events -------------------------------- *)
\* what event.sender.send / progressCallback hands to the presentation side
Ev(ch, stage, progress, msg, key, ok, list) ==
  [ch |-> ch, stage |-> stage, progress |-> progress, msg |-> msg,
   key |-> key, ok |-> ok, list |-> list]

\* progressCallback({stage, progress, message, key})
UploadProgress(stage, progress, msg, key) ==
  Ev("upload-progress", stage, progress, msg, key, TRUE, <<>>)

\* event.sender.send("upload-status", message)
UploadStatus(msg, key) == Ev("upload-status", "", 0, msg, key, TRUE, <<>>)

(* ---------------------------- process slots ---------------------------- *)
Kinds == {"uploadAudio", "loadHistory", "deleteAudio", "constructor",
          "audio-data", "get-audio-history", "delete-audio",
          "transcribe-audio"}

\* a slot before its call or command has arrived
IdleProc(kind) ==
  [kind |-> kind, pc |-> "idle",
   key |-> NoKey, size |-> 0, now |-> 0,
   write |-> "none", putErr |-> "", interval |-> FALSE, progress |-> 0,
   timer |-> "none", appended |-> FALSE,
   io |-> "none", resp |-> "", listing |-> <<>>,
   alias |-> FALSE, audioFiles |-> <<>>, idx |-> 0, file |-> 0,
   checkedKeys |-> {},
   tinterval |-> FALSE, tprogress |-> 0, absent |-> FALSE,
   uploadedBefore |-> {}, deletedBefore |-> {}, inflight |-> {},
   events |-> <<>>, result |-> "none", error |-> "", returned |-> <<>>]

Slots == DOMAIN proc

Emit(r, e) == [r EXCEPT !.events = Append(@, e)]

(* --------------------------- the object heap --------------------------- *)
\* an AudioFile: {key, timestamp, size, url, transcription}
AudioFile(key, timestamp, size, url) ==
  [key |-> key, timestamp |-> timestamp, size |-> size, url |-> url,
   transcription |-> ""]

\* ids some array still refers to: this.uploadHistory or a local audioFiles
\* (alias: the local audioFiles is the very array this.uploadHistory holds)
UsedIds(hist, pr) ==
  Range(hist) \cup UNION {Range(pr[q].audioFiles) : q \in DOMAIN pr}

\* the ids first, first + 1, ... of n new objects
IdsFrom(first, n) == Evaluated([k \in 1..n |-> first + k - 1])

\* where a run of n ids that are not in used starts: at "from" or just
\* after a used id
FreeRun(n, used, from) ==
  CHOOSE b \in {from} \cup {u + 1 : u \in used} :
    b >= from /\ (b..(b + n - 1)) \cap used = {}

\* n ids in a row that are not in used
FreshIds(n, used, from) == IdsFrom(FreeRun(n, used, from), n)

\* the heap with the objects vals allocated at the ids
Allocated(heap, ids, vals) ==
  [i \in Range(ids) |-> vals[i - ids[1] + 1]] @@ heap

\* the heap restricted to the objects still referred to
Collect(heap, hist, pr) ==
  [i \in (DOMAIN heap) \cap UsedIds(hist, pr) |-> heap[i]]

\* the AudioFile values of an array of ids
Deref(arr) == [i \in 1..Len(arr) |-> files[arr[i]]]
HistoryFiles == Deref(uploadHistory)
HistoryKeys == {files[i].key : i \in Range(uploadHistory)}

\* a local array that aliases this.uploadHistory is cut loose, with the old
\* contents, when this.uploadHistory is assigned a new array
Detach(pr, old) ==
  [q \in DOMAIN pr |->
     IF pr[q].alias
     THEN [pr[q] EXCEPT !.alias = FALSE, !.audioFiles = old]
     ELSE pr[q]]

(* ------------------------------ uploadAudio ---------------------------- *)
UIDs == 1..MaxUid
Sizes == 0..MaxSize
PutErrors == {"AccessDenied", "NoSuchBucket", "timeout", "network", "CORS",
              "other"}

\* the catch block of uploadAudio: the class of the enhanced error, chosen
\* by substring tests on the raw message, in this order
ClassifyUploadError(msg) ==
  CASE msg = "AccessDenied" -> "AccessDenied"
    [] msg = "NoSuchBucket" -> "BucketMissing"
    [] msg \in {"timeout", "Upload timed out after 60 seconds"} -> "Timeout"
    [] msg = "network" -> "Network"
    [] msg = "CORS" -> "CORS"
    [] OTHER -> "Unclassified"

\* uploadAudio raises: nothing else of the call runs in this turn
UploadRaise(r, err) ==
  [r EXCEPT !.result = "raised", !.error = err]

\* the try block after the race: signed URL, history append, and either the
\* kick-off fetch (left pending) or the end of the call
UploadProcessed(r, url, id) ==
  LET r1 == Emit(r, UploadProgress("processing", 50, "Generating signed URL...", r.key))
      r2 == Emit(r1, UploadProgress("processing", 75, "URL generation complete", r.key))
      r3 == Emit([r2 EXCEPT !.appended = TRUE],
                 UploadProgress("processing", 85, "Added to audio history", r.key))
  IN  IF r2Config.workerUrl
      THEN [Emit(r3, UploadProgress("processing", 90,
                     "Starting automatic transcription...", r.key))
              EXCEPT !.pc = "kickoff", !.io = "fetchSent"]
      ELSE LET r4 == Emit(r3, UploadProgress("processing", 95, "Processing completed", r.key))
               r5 == Emit(r4, UploadProgress("complete", 100,
                                  "Upload successfully completed", r.key))
           IN  [r5 EXCEPT !.result = "returned"]

(* --------------------------- sendAudioHistory -------------------------- *)
\* the for-of loop of sendAudioHistory: the first index from i on whose file
\* has no transcription and whose key was not checked yet; 0 when the
\* iterator runs off the end of the array
NextToProbe(arr, heap, i, checked) ==
  LET todo == {j \in i..Len(arr) :
                 /\ heap[arr[j]].transcription = ""
                 /\ heap[arr[j]].key \notin checked}
  IN  IF todo = {} THEN 0 ELSE CHOOSE j \in todo : \A k \in todo : j <= k

\* audioFiles.filter(file => typeof file.key === "string" && ...), as sent
ValidatedFiles(arr, heap) == [i \in 1..Len(arr) |-> heap[arr[i]]]

\* the loop of sendAudioHistory from index i on, over the array arr that
\* audioFiles now denotes: up to the next getObject, or to the final send
SendLoop(r, arr, heap, i) ==
  LET j == NextToProbe(arr, heap, i, r.checkedKeys)
  IN  IF j = 0
      THEN [Emit(r, Ev("audio-history", "", 0, "", NoKey, TRUE,
                       ValidatedFiles(arr, heap)))
              EXCEPT !.pc = "done", !.alias = FALSE, !.audioFiles = <<>>,
                     !.idx = 0, !.file = 0, !.checkedKeys = {},
                     !.io = "none"]
      ELSE [r EXCEPT !.pc = "probe", !.idx = j, !.io = "getSent",
                     !.file = arr[j],
                     !.checkedKeys = @ \cup {heap[arr[j]].key}]

\* sendAudioHistory up to its first await, the service being initialised:
\* audioFiles = getAudioHistory(); an empty history is loaded from the store
SendAudioHistory(r, hist, heap) ==
  IF Len(hist) = 0
  THEN [r EXCEPT !.pc = "list", !.io = "listSent", !.alias = FALSE,
                 !.audioFiles = <<>>, !.checkedKeys = {}]
  ELSE SendLoop([r EXCEPT !.alias = TRUE, !.audioFiles = <<>>,
                          !.checkedKeys = {}], hist, heap, 1)

(* ------------------- the audio-data handler's endings ------------------ *)
\* the status text the catch block of the handler picks for an upload
\* error, by substring tests on the enhanced message
HandlerUploadError(err) ==
  CASE err = "Timeout" -> "Network error while uploading audio"
    [] err = "AccessDenied" -> "Authentication error"
    [] err \in {"BucketMissing", "CORS"} -> "R2 bucket error"
    [] OTHER -> "Error uploading audio"

\* what runs, in the same turn, after uploadAudio returned or raised
AfterUpload(r, hist, heap) ==
  IF r.kind = "audio-data"
  THEN IF r.result = "returned"
       THEN SendAudioHistory(
              Emit(r, UploadStatus("Audio uploaded successfully", r.key)),
              hist, heap)
       ELSE [Emit(r, UploadStatus(HandlerUploadError(r.error), r.key))
               EXCEPT !.pc = "done"]
  ELSE [r EXCEPT !.pc = "done"]

\* the three variables a turn of the client changes; the heap is swept
Commit(pr, hist, heap) ==
  /\ proc' = pr
  /\ uploadHistory' = hist
  /\ files' = Collect(heap, hist, pr)

(* ------------------------- uploadAudio: actions ------------------------ *)
\* mutant: the length of the buffer is not looked at
EmptyAudioDataIgnored(n) == FALSE

\* !audioData || audioData.length === 0, for a buffer of n bytes
EmptyAudioData(n) == n = 0

\* uploadAudio(audioData, progressCallback) up to the await of the race:
\* input checks, key, buffer, putObject issued, interval and timer started
UploadAudioBegin(r, n, uid) ==
  IF EmptyAudioData(n)
  THEN UploadRaise([r EXCEPT !.size = n], "Empty audio data provided")
  ELSE LET key == MakeKey(clock, uid)
           r1 == Emit([r EXCEPT !.size = n, !.now = clock, !.key = key],
                      UploadProgress("preparing", 0, "Preparing audio for upload...", NoKey))
           r2 == Emit(r1, UploadProgress("preparing", 25, "Audio prepared successfully", key))
           r3 == Emit(r2, UploadProgress("uploading", 25, "Starting upload to R2...", key))
       IN  [r3 EXCEPT !.pc = "race", !.write = "sent", !.interval = TRUE,
                      !.progress = TickStart, !.timer = "armed"]

\* a direct call of the service's uploadAudio
uploadAudio(p) ==
  /\ proc[p].kind = "uploadAudio" /\ proc[p].pc = "idle"
  /\ r2UploadService = "ready"
  /\ \E n \in Sizes, uid \in UIDs :
       LET r == UploadAudioBegin(proc[p], n, uid)
       IN  Commit([proc EXCEPT ![p] = IF r.result = "raised"
                                       THEN AfterUpload(r, uploadHistory, files)
                                       ELSE r],
                  uploadHistory, files)
  /\ UNCHANGED <<r2Config, r2UploadService, store, clock>>

\* the store serves the putObject request, or refuses it
putObject(p) ==
  /\ proc[p].write = "sent"
  /\ \/ /\ store' = StorePutObject(store, proc[p].key, proc[p].size)
        /\ proc' = [proc EXCEPT ![p].write = "stored"]
     \/ /\ proc' = [proc EXCEPT ![p].write = "refused"]
        /\ UNCHANGED store
  /\ UNCHANGED <<r2Config, r2UploadService, uploadHistory, files, clock>>

\* the setInterval callback of progressUpdates
progressUpdates(p) ==
  /\ proc[p].interval
  /\ proc[p].progress < TickCap
  /\ LET v == proc[p].progress + TickStep
     IN  proc' = [proc EXCEPT ![p] =
                    Emit([@ EXCEPT !.progress = v],
                         UploadProgress("uploading", v, "Uploading to R2...", @.key))]
  /\ UNCHANGED <<r2Config, r2UploadService, uploadHistory, files, store, clock>>

\* mutant: progressUpdates, which resolves on either outcome, wins the race
RaceWinnerProgressUpdates(r) == "resolved"

\* which of the raced promises settles the race when uploadPromise settles:
\* the reaction of Promise.race on uploadPromise runs before the one on
\* progressUpdates, which is resolved one reaction later
RaceWinner(r) == IF r.write = "refused" THEN "rejected" ELSE "resolved"

\* mutant: the handlers report but leave the interval running
SettleHandlersKeepInterval(r) ==
  LET ok == r.write = "stored"
      r1 == [r EXCEPT !.write = IF ok THEN "resolved" ELSE "rejected"]
  IN  IF ok
      THEN Emit(r1, UploadProgress("uploading", 50, "Upload to R2 completed", r.key))
      ELSE r1

\* uploadPromise.then(...).catch(...) inside progressUpdates: the interval
\* is cleared and, on success, "uploading 50" is reported
SettleHandlers(r) ==
  LET ok == r.write = "stored"
      r1 == [r EXCEPT !.interval = FALSE,
                      !.write = IF ok THEN "resolved" ELSE "rejected"]
  IN  IF ok
      THEN Emit(r1, UploadProgress("uploading", 50, "Upload to R2 completed", r.key))
      ELSE r1

\* mutant: a write that settles after the timeout still continues the call
RaceOpenAfterTimeout(r) ==
  r.pc = "race" \/ (r.result = "raised" /\ r.error = "Timeout")

\* await Promise.race([...]): the call is still waiting for the race, which
\* only its first settlement ends
RaceOpen(r) == r.pc = "race"

\* mutant: a recording for which no URL could be signed is not added
UnshiftSigned(hist, id, url) == IF url = "" THEN hist ELSE <<id>> \o hist

\* this.uploadHistory.unshift(newAudioFile), whatever url it carries
Unshift(hist, id, url) == <<id>> \o hist

\* the answer to putObject arrives: the then / catch of progressUpdates
\* run, and if the race is still open it settles and the call goes on
uploadPromise(p) ==
  /\ proc[p].write \in {"stored", "refused"}
  /\ LET r0 == proc[p]
         r2 == SettleHandlers(r0)
         id == FreshIds(1, UsedIds(uploadHistory, proc), 1)[1]
     IN  IF ~RaceOpen(r0)
         THEN Commit([proc EXCEPT ![p] = r2], uploadHistory, files)
         ELSE IF RaceWinner(r0) = "rejected"
         THEN \E e \in PutErrors :
                Commit([proc EXCEPT ![p] =
                          AfterUpload(UploadRaise([r2 EXCEPT !.putErr = e],
                                                  ClassifyUploadError(e)),
                                      uploadHistory, files)],
                       uploadHistory, files)
         ELSE \E url \in {"url", ""} :
                LET hist == Unshift(uploadHistory, id, url)
                    heap == (id :> AudioFile(r0.key, r0.now, r0.size, url)) @@ files
                    r3 == UploadProcessed(r2, url, id)
                IN  Commit([proc EXCEPT ![p] =
                              IF r3.result = "returned"
                              THEN AfterUpload(r3, hist, heap) ELSE r3],
                           hist, heap)
  /\ UNCHANGED <<r2Config, r2UploadService, store, clock>>

\* the 60 s setTimeout of uploadTimeout fires; it is never cleared
uploadTimeout(p) ==
  /\ proc[p].timer = "armed"
  /\ LET r0 == [proc[p] EXCEPT !.timer = "fired"]
     IN  IF RaceOpen(r0)
         THEN Commit([proc EXCEPT ![p] =
                        AfterUpload(UploadRaise(r0,
                            ClassifyUploadError("Upload timed out after 60 seconds")),
                          uploadHistory, files)],
                     uploadHistory, files)
         ELSE Commit([proc EXCEPT ![p] = r0], uploadHistory, files)
  /\ UNCHANGED <<r2Config, r2UploadService, store, clock>>

(* ------------------------------ loadHistory ---------------------------- *)
\* the AudioFile values loadHistory builds from a listing: the audio keys,
\* each with the timestamp read back from its key, sorted newest first
BuiltFiles(audio, now) ==
  Evaluated([i \in 1..Len(audio) |->
               AudioFile(audio[i].key,
                         extractTimestampFromKey(audio[i].key, now),
                         audio[i].size, "url")])

LoadedFiles(listing, now) ==
  SortDesc(BuiltFiles(SelectSeq(listing, LAMBDA o : IsAudioKey(o.key)), now))

\* what runs after loadHistory returned, by the caller
AfterLoad(r, hist, heap) ==
  IF r.kind \in {"loadHistory", "constructor"}
  THEN [r EXCEPT !.pc = "done", !.io = "none", !.result = "returned",
                 !.returned = [i \in 1..Len(hist) |-> heap[hist[i]]]]
  ELSE SendLoop([r EXCEPT !.alias = TRUE, !.audioFiles = <<>>, !.io = "none"],
                hist, heap, 1)

\* the keys uploadAudio calls have returned, and those deleteAudio calls
\* have deleted and returned from, so far
ReturnedKeys ==
  {proc[q].key : q \in {x \in Slots : proc[x].kind \in {"uploadAudio", "audio-data"}
                                        /\ proc[x].result = "returned"}}
DeletedKeys ==
  {proc[q].key : q \in {x \in Slots : proc[x].kind \in {"deleteAudio", "delete-audio"}
                                        /\ proc[x].result = "returned"}}

\* a direct call of the service's loadHistory: listObjectsV2 is issued
loadHistory(p) ==
  /\ proc[p].kind = "loadHistory" /\ proc[p].pc = "idle"
  /\ r2UploadService = "ready"
  /\ proc' = [proc EXCEPT ![p].pc = "list", ![p].io = "listSent",
                           ![p].uploadedBefore = ReturnedKeys,
                           ![p].deletedBefore = DeletedKeys]
  /\ UNCHANGED <<r2Config, r2UploadService, uploadHistory, files, store, clock>>

\* the store serves a listObjectsV2 request, or refuses it; an empty page
\* may come without a Contents member
listObjectsV2(p) ==
  /\ proc[p].io = "listSent"
  /\ \/ proc' = [proc EXCEPT ![p].io = "listServed", ![p].resp = "ok",
                             ![p].listing = ListObjectsV2(store)]
     \/ /\ ListObjectsV2(store) = <<>>
        /\ proc[p].pc = "list"
        /\ proc' = [proc EXCEPT ![p].io = "listServed", ![p].resp = "nocontents"]
     \/ proc' = [proc EXCEPT ![p].io = "listServed", ![p].resp = "error"]
  /\ UNCHANGED <<r2Config, r2UploadService, uploadHistory, files, store, clock>>

\* the new this.uploadHistory loadHistory assigns, as values
LoadHistoryAssign(listing, now) == LoadedFiles(listing, now)

\* the listing arrives in loadHistory: this.uploadHistory is replaced by
\* fresh objects (or kept, on an error or a page without Contents) and
\* returned to the caller
loadHistoryResume(p) ==
  /\ proc[p].pc = "list" /\ proc[p].io = "listServed"
  /\ LET r0 == [proc[p] EXCEPT !.listing = <<>>, !.resp = ""]
         pr0 == [proc EXCEPT ![p] = r0]
     IN  IF proc[p].resp = "ok"
         THEN LET vals == LoadHistoryAssign(proc[p].listing, clock)
                  pr1  == Detach(pr0, uploadHistory)
                  ids  == FreshIds(Len(vals), UsedIds(<<>>, pr1), 1)
                  heap == Allocated(files, ids, vals)
              IN  Commit([pr1 EXCEPT ![p] = AfterLoad(pr1[p], ids, heap)], ids, heap)
         ELSE Commit([pr0 EXCEPT ![p] = AfterLoad(r0, uploadHistory, files)],
                     uploadHistory, files)
  /\ UNCHANGED <<r2Config, r2UploadService, store, clock>>

(* ------------------------------ deleteAudio ---------------------------- *)
\* this.uploadHistory.filter(file => file.key !== key): a new array
DeleteFilter(hist, heap, key) ==
  FilterSeq(hist, {i \in Range(hist) : heap[i].key # key})

\* a direct call of the service's deleteAudio: deleteObject is issued
DeleteAudioBegin(r, key) ==
  [r EXCEPT !.key = key, !.pc = "delete", !.io = "deleteSent"]

\* the store serves the deleteObject request, or refuses it
deleteObject(p) ==
  /\ proc[p].io = "deleteSent"
  /\ \/ /\ store' = StoreDeleteObject(store, proc[p].key)
        /\ proc' = [proc EXCEPT ![p].io = "deleteServed", ![p].resp = "ok"]
     \/ /\ proc' = [proc EXCEPT ![p].io = "deleteServed", ![p].resp = "error"]
        /\ UNCHANGED store
  /\ UNCHANGED <<r2Config, r2UploadService, uploadHistory, files, clock>>

\* mutant: the handler refreshes the history after a failed delete as well
DeleteCommandFailedRefreshing(r, hist, heap) ==
  SendAudioHistory(Emit(r, UploadStatus("Error deleting audio", r.key)),
                   hist, heap)

\* the catch block of the delete-audio handler: one error status, no more
DeleteCommandFailed(r, hist, heap) ==
  [Emit(r, UploadStatus("Error deleting audio", r.key)) EXCEPT !.pc = "done"]

\* what runs after deleteAudio returned or raised, by the caller
AfterDelete(r, hist, heap) ==
  IF r.kind = "delete-audio"
  THEN IF r.result = "returned"
       THEN SendAudioHistory(
              Emit(r, UploadStatus("Audio file deleted successfully", r.key)),
              hist, heap)
       ELSE DeleteCommandFailed(r, hist, heap)
  ELSE [r EXCEPT !.pc = "done"]

\* the answer to deleteObject arrives: the entry is filtered out of the
\* history and deleteAudio returns, or it raises
deleteAudioResume(p) ==
  /\ proc[p].pc = "delete" /\ proc[p].io = "deleteServed"
  /\ LET r0 == [proc[p] EXCEPT !.io = "none", !.resp = ""]
         pr0 == [proc EXCEPT ![p] = r0]
     IN  IF proc[p].resp = "ok"
         THEN LET hist == DeleteFilter(uploadHistory, files, r0.key)
                  pr1  == Detach(pr0, uploadHistory)
              IN  Commit([pr1 EXCEPT ![p] =
                            AfterDelete([pr1[p] EXCEPT !.result = "returned"],
                                        hist, files)],
                         hist, files)
         ELSE Commit([pr0 EXCEPT ![p] =
                        AfterDelete([r0 EXCEPT !.result = "raised",
                                               !.error = "Failed to delete audio file"],
                                    uploadHistory, files)],
                     uploadHistory, files)
  /\ UNCHANGED <<r2Config, r2UploadService, store, clock>>

(* ------------------------- keys a command may name --------------------- *)
\* a key no upload ever produced
MissingKey == [folder |-> R2_FOLDER_NAME, ts |-> 0, uid |-> 1, ext |-> "webm"]

\* the keys the presentation side can have learnt (from audio-history and
\* upload-progress events), and one it made up
CommandKeys ==
  {o.key : o \in {x \in Range(store) : IsAudioKey(x.key)}} \cup HistoryKeys
    \cup {proc[q].key : q \in {x \in Slots : proc[x].kind \in {"uploadAudio", "audio-data"}
                                              /\ proc[x].key # NoKey}}
    \cup {MissingKey}

\* the commands that have arrived and have not settled
InFlight == {q \in Slots : proc[q].pc \notin {"idle", "done"}}

\* a direct call of the service's deleteAudio
deleteAudio(p) ==
  /\ proc[p].kind = "deleteAudio" /\ proc[p].pc = "idle"
  /\ r2UploadService = "ready"
  /\ \E key \in CommandKeys :
       proc' = [proc EXCEPT ![p] = DeleteAudioBegin(@, key)]
  /\ UNCHANGED <<r2Config, r2UploadService, uploadHistory, files, store, clock>>

(* ----------------------------- IPC handlers ---------------------------- *)
RequiredFields == <<"accountId", "accessKeyId", "secretAccessKey", "bucketName">>

\* Object.entries(r2Config).filter(([key, value]) => key !== "workerUrl" && !value)
MissingConfigValues ==
  FilterSeq(RequiredFields, {f \in Range(RequiredFields) : ~r2Config[f]})

\* !data || !(data instanceof Uint8Array) || data.length === 0
InvalidAudioData(n) == n = 0

\* ipcMain.on("audio-data"): the checks, then uploadAudio up to its await
AudioDataBegin(r, n, uid) ==
  IF InvalidAudioData(n)
  THEN [Emit(r, UploadStatus("Error: Invalid audio data received", NoKey))
          EXCEPT !.pc = "done", !.size = n]
  ELSE IF r2UploadService = "null"
  THEN [Emit(r, UploadStatus("Error: R2 upload service not initialized", NoKey))
          EXCEPT !.pc = "done", !.size = n]
  ELSE IF MissingConfigValues # <<>>
  THEN [Emit(r, Ev("upload-status", "", 0, "Missing R2 configuration", NoKey,
                   TRUE, MissingConfigValues))
          EXCEPT !.pc = "done", !.size = n]
  ELSE UploadAudioBegin(Emit(r, UploadStatus("Uploading audio", NoKey)), n, uid)

audioData(p) ==
  /\ proc[p].kind = "audio-data" /\ proc[p].pc = "idle"
  /\ \E n \in Sizes, uid \in UIDs :
       proc' = [proc EXCEPT ![p] = AudioDataBegin(@, n, uid)]
  /\ UNCHANGED <<r2Config, r2UploadService, uploadHistory, files, store, clock>>

\* ipcMain.on("get-audio-history"): sendAudioHistory up to its first await
getAudioHistory(p) ==
  /\ proc[p].kind = "get-audio-history" /\ proc[p].pc = "idle"
  /\ proc' = [proc EXCEPT ![p] =
       IF r2UploadService = "null"
       THEN [Emit(Emit(@, UploadStatus("R2 service not available", NoKey)),
                  Ev("audio-history", "", 0, "", NoKey, TRUE, <<>>))
               EXCEPT !.pc = "done"]
       ELSE SendAudioHistory(@, uploadHistory, files)]
  /\ UNCHANGED <<r2Config, r2UploadService, uploadHistory, files, store, clock>>

\* ipcMain.on("delete-audio"): the checks, then deleteAudio up to its await
DeleteCommandBegin(r, key) ==
  IF r2UploadService = "null"
  THEN [Emit([r EXCEPT !.key = key], UploadStatus("Error deleting audio", key))
          EXCEPT !.pc = "done"]
  ELSE DeleteAudioBegin(r, key)

deleteAudioCommand(p) ==
  /\ proc[p].kind = "delete-audio" /\ proc[p].pc = "idle"
  /\ \E key \in CommandKeys :
       proc' = [proc EXCEPT ![p] =
                  DeleteCommandBegin([@ EXCEPT !.inflight = InFlight], key)]
  /\ UNCHANGED <<r2Config, r2UploadService, uploadHistory, files, store, clock>>

\* the ways the getObject probe for a transcript can end: the object is
\* read and parsed, it is absent, the read fails otherwise, or the content
\* is no JSON with a transcription
ProbeOutcomes(tkey) ==
  IF tkey \in StoreKeys(store)
  THEN {"found", "read error", "unparsable"}
  ELSE {"absent", "read error"}

\* mutant: the failure of a probe ends the request in the outer catch block
ProbeFailedAborts(r, arr, heap) ==
  [Emit(Emit(r, UploadStatus("Error loading audio history", NoKey)),
        Ev("audio-history", "", 0, "", NoKey, TRUE, <<>>))
     EXCEPT !.pc = "done", !.alias = FALSE, !.audioFiles = <<>>,
            !.idx = 0, !.file = 0, !.checkedKeys = {}, !.io = "none"]

\* the catch block inside the loop: the failure is logged and the loop goes
\* on with the next file
ProbeFailed(r, arr, heap) == SendLoop(r, arr, heap, r.idx + 1)

\* the store answers the getObject probe of sendAudioHistory for the
\* transcription of the file at hand; the loop goes on with the next file
sendAudioHistoryProbe(p) ==
  /\ proc[p].pc = "probe" /\ proc[p].io = "getSent"
  /\ \E outcome \in ProbeOutcomes(TranscriptionKey(files[proc[p].file].key)) :
       LET r0   == proc[p]
           arr  == IF r0.alias THEN uploadHistory ELSE r0.audioFiles
           heap == IF outcome = "found"
                   THEN [files EXCEPT ![r0.file].transcription = "text"]
                   ELSE files
       IN  Commit([proc EXCEPT ![p] =
                     IF outcome = "found"
                     THEN SendLoop(r0, arr, heap, r0.idx + 1)
                     ELSE ProbeFailed(r0, arr, heap)],
                  uploadHistory, heap)
  /\ UNCHANGED <<r2Config, r2UploadService, store, clock>>

(* ------------------------ the /transcribe endpoint --------------------- *)
\* mutant: the endpoint goes on to the provider whatever the bucket holds
WorkerFindsAlways(key) == TRUE

\* const audioFile = await env.AUDIO_BUCKET.get(key); if (!audioFile) ...
WorkerFinds(key) == key \in StoreKeys(store)

\* the endpoint receives {key}: env.AUDIO_BUCKET.get(key); 404 when absent
workerGet(p) ==
  /\ proc[p].io = "fetchSent"
  /\ LET r0 == [proc[p] EXCEPT !.absent = proc[p].key \notin StoreKeys(store)]
     IN  proc' = [proc EXCEPT ![p] =
           IF WorkerFinds(r0.key)
           THEN [r0 EXCEPT !.io = "fetchProvider"]
           ELSE [r0 EXCEPT !.io = "fetchReplied", !.resp = "404"]]
  /\ UNCHANGED <<r2Config, r2UploadService, uploadHistory, files, store, clock>>

\* mutant: success is answered without waiting for the put
TranscriptPutSkipped(st, key) == st

\* await env.AUDIO_BUCKET.put(transcriptionKey, ...)
TranscriptPut(st, key) == StorePutObject(st, TranscriptionKey(key), 1)

\* sendToTranscriptionService answers: the transcript object is put and
\* 200 is answered, or the provider (or the put) failed and 500 is answered
workerTranscribe(p) ==
  /\ proc[p].io = "fetchProvider"
  /\ \/ /\ store' = TranscriptPut(store, proc[p].key)
        /\ proc' = [proc EXCEPT ![p].io = "fetchReplied", ![p].resp = "200"]
     \/ /\ \E code \in {"500", "500 API key not configured"} :
             proc' = [proc EXCEPT ![p].io = "fetchReplied", ![p].resp = code]
        /\ UNCHANGED store
  /\ UNCHANGED <<r2Config, r2UploadService, uploadHistory, files, clock>>

\* the ways the client's fetch can settle: the endpoint's answer, an answer
\* whose body is no JSON, or a network error (request or answer lost)
FetchOutcomes(r) ==
  (IF r.io = "fetchReplied"
   THEN {r.resp} \cup (IF r.resp = "200" THEN {"200 unparsable"} ELSE {"502 unparsable"})
   ELSE {})
  \cup (IF r.io \in {"fetchSent", "fetchReplied"} THEN {"network error"} ELSE {})

ResponseOk(outcome) == outcome \in {"200", "200 unparsable"}

\* the message of the progress event that follows the kick-off request
KickoffMessage(outcome) ==
  IF outcome = "network error" THEN "Transcription skipped due to error"
  ELSE IF ResponseOk(outcome) THEN "Transcription in progress"
  ELSE "Transcription skipped"

\* mutant: a kick-off request that is lost makes the call raise
KickoffSettledStrict(r, outcome) ==
  IF outcome = "network error"
  THEN UploadRaise(r, "Network")
  ELSE [Emit(Emit(r, UploadProgress("processing", 95, KickoffMessage(outcome), r.key)),
             UploadProgress("complete", 100, "Upload successfully completed", r.key))
          EXCEPT !.result = "returned"]

\* the try / catch around the kick-off fetch and what follows it: 95 with
\* the message of the outcome, complete, and the key is returned
KickoffSettled(r, outcome) ==
  LET r1 == Emit(r, UploadProgress("processing", 95, KickoffMessage(outcome), r.key))
      r2 == Emit(r1, UploadProgress("complete", 100,
                         "Upload successfully completed", r.key))
  IN  [r2 EXCEPT !.result = "returned"]

\* the kick-off fetch of uploadAudio settles: the call ends all the same
uploadAudioKickoff(p) ==
  /\ proc[p].pc = "kickoff"
  /\ \E outcome \in FetchOutcomes(proc[p]) :
       LET r0 == [proc[p] EXCEPT !.io = "none", !.resp = ""]
       IN  Commit([proc EXCEPT ![p] =
                     AfterUpload(KickoffSettled(r0, outcome),
                                 uploadHistory, files)],
                  uploadHistory, files)
  /\ UNCHANGED <<r2Config, r2UploadService, store, clock>>

(* --------------------------- transcribe-audio -------------------------- *)
TranscriptionProgress(progress, msg, key) ==
  Ev("transcription-progress", "", progress, msg, key, TRUE, <<>>)
TranscriptionStatus(ok, msg, key) ==
  Ev("transcription-status", "", 0, msg, key, ok, <<>>)

\* mutant: the catch block goes on to refresh the history, as success does
TranscribeFailRefreshing(r, msg) ==
  SendAudioHistory(
    Emit(Emit([r EXCEPT !.tinterval = FALSE, !.resp = "",
                        !.result = "failed", !.error = msg],
              TranscriptionProgress(-1, "Transcription failed", r.key)),
         TranscriptionStatus(FALSE, msg, r.key)),
    uploadHistory, files)

\* mutant: the catch block reports the failure and leaves the interval
TranscribeFailKeepInterval(r, msg) ==
  LET r1 == Emit(r, TranscriptionProgress(-1, "Transcription failed", r.key))
  IN  [Emit(r1, TranscriptionStatus(FALSE, msg, r.key))
         EXCEPT !.pc = "done", !.io = "none", !.resp = "",
                !.result = "failed", !.error = msg]

\* mutant: the catch block reports the negative progress and no status
TranscribeFailSilent(r, msg) ==
  [Emit([r EXCEPT !.tinterval = FALSE],
        TranscriptionProgress(-1, "Transcription failed", r.key))
     EXCEPT !.pc = "done", !.io = "none", !.resp = "",
            !.result = "failed", !.error = msg]

\* the catch block of the handler: interval cleared, -1, failure status
TranscribeFail(r, msg) ==
  LET r1 == Emit([r EXCEPT !.tinterval = FALSE],
                 TranscriptionProgress(-1, "Transcription failed", r.key))
  IN  [Emit(r1, TranscriptionStatus(FALSE, msg, r.key))
         EXCEPT !.pc = "done", !.io = "none", !.resp = "",
                !.result = "failed", !.error = msg]

\* ipcMain.on("transcribe-audio") up to the await of fetch
TranscribeBegin(r, key) ==
  LET r0 == [r EXCEPT !.key = key]
  IN  IF r2UploadService = "null"
      THEN TranscribeFail(r0, "R2 upload service not initialized")
      ELSE IF ~r2Config.workerUrl
      THEN TranscribeFail(r0, "Worker URL not configured")
      ELSE LET r1 == Emit(r0, TranscriptionProgress(0,
                          "Initiating transcription request...", key))
               r2 == Emit([r1 EXCEPT !.tprogress = 10, !.tinterval = TRUE],
                          TranscriptionProgress(10,
                          "Connecting to transcription service...", key))
           IN  [r2 EXCEPT !.pc = "fetch", !.io = "fetchSent"]

transcribeAudio(p) ==
  /\ proc[p].kind = "transcribe-audio" /\ proc[p].pc = "idle"
  /\ \E key \in CommandKeys :
       proc' = [proc EXCEPT ![p] =
                  TranscribeBegin([@ EXCEPT !.inflight = InFlight], key)]
  /\ UNCHANGED <<r2Config, r2UploadService, uploadHistory, files, store, clock>>

\* the interval callbacks followed for one command: MaxLongTicks for a
\* command that runs alone, MaxTicks for each of two side by side
TickBudget == IF Cardinality(Slots) = 1 THEN MaxLongTicks ELSE MaxTicks

\* mutant: the callback reports whatever the counter has reached
TickShownAlways(v) == TRUE

\* if (progress <= 95)
TickShown(v) == v <= 95

\* the 3 s setInterval callback of the handler; past 95 it only counts on
progressInterval(p) ==
  /\ proc[p].tinterval
  /\ proc[p].tprogress <= 95
  /\ proc[p].tprogress < 10 + 5 * TickBudget
  /\ LET v == proc[p].tprogress + 5
     IN  proc' = [proc EXCEPT ![p] =
                    IF TickShown(v)
                    THEN Emit([@ EXCEPT !.tprogress = v],
                              TranscriptionProgress(v,
                                IF v < 50 THEN "Transcribing audio..."
                                ELSE "Processing transcription results...", @.key))
                    ELSE [@ EXCEPT !.tprogress = v]]
  /\ UNCHANGED <<r2Config, r2UploadService, uploadHistory, files, store, clock>>

\* the error message a non-success answer with a JSON body is turned into
TranscribeErrorMessage(outcome) ==
  CASE outcome = "404" -> "Audio file not found"
    [] outcome = "500 API key not configured" ->
         "OpenAI API key not configured or invalid"
    [] OTHER -> "Transcription failed"

\* fetch settles in the handler: a network error ends the command; else
\* the body is awaited (after progress 100, on a success status)
transcribeFetch(p) ==
  /\ proc[p].pc = "fetch"
  /\ \E outcome \in FetchOutcomes(proc[p]) :
       LET r0 == [proc[p] EXCEPT !.io = "none", !.resp = outcome]
       IN  proc' = [proc EXCEPT ![p] =
             IF outcome = "network error"
             THEN TranscribeFail(r0, "Failed to connect to transcription service")
             ELSE IF ResponseOk(outcome)
             THEN [Emit(r0, TranscriptionProgress(100, "Finalizing transcription...", r0.key))
                     EXCEPT !.pc = "json"]
             ELSE [r0 EXCEPT !.pc = "json"]]
  /\ UNCHANGED <<r2Config, r2UploadService, uploadHistory, files, store, clock>>

\* response.json() settles: failure status, or success status followed by
\* sendAudioHistory
transcribeBody(p) ==
  /\ proc[p].pc = "json"
  /\ LET r0 == proc[p]
         outcome == r0.resp
     IN  IF outcome = "200"
         THEN Commit([proc EXCEPT ![p] =
                SendAudioHistory(
                  Emit([r0 EXCEPT !.tinterval = FALSE, !.resp = "",
                                  !.result = "succeeded"],
                       TranscriptionStatus(TRUE, "", r0.key)),
                  uploadHistory, files)],
                uploadHistory, files)
         ELSE Commit([proc EXCEPT ![p] =
                TranscribeFail(r0,
                  IF outcome = "200 unparsable" THEN "invalid json"
                  ELSE IF outcome = "502 unparsable"
                  THEN "Transcription failed with status"
                  ELSE TranscribeErrorMessage(outcome))],
                uploadHistory, files)
  /\ UNCHANGED <<r2Config, r2UploadService, store, clock>>

(* ------------------------------ constructor ---------------------------- *)
\* the answer to testConnection's listObjectsV2 arrives in the promise chain
\* the constructor started: success goes on to loadHistory
testConnection(p) ==
  /\ proc[p].kind = "constructor"
  /\ proc[p].pc = "test" /\ proc[p].io = "listServed"
  /\ proc' = [proc EXCEPT ![p] =
       IF proc[p].resp = "ok"
       THEN [@ EXCEPT !.pc = "list", !.io = "listSent", !.resp = "", !.listing = <<>>]
       ELSE [@ EXCEPT !.pc = "done", !.io = "none", !.resp = "", !.listing = <<>>]]
  /\ UNCHANGED <<r2Config, r2UploadService, uploadHistory, files, store, clock>>

(* --------------------------------- time -------------------------------- *)
Clock0 == MaxKeys + 1

\* a millisecond passes
tick ==
  /\ clock < Clock0 + MaxClock
  /\ clock' = clock + 1
  /\ UNCHANGED <<r2Config, r2UploadService, uploadHistory, files, store, proc>>

(* ---------------------------- initial states --------------------------- *)
ConfigFields == {"accountId", "accessKeyId", "secretAccessKey", "bucketName",
                 "workerUrl"}
Configs == [ConfigFields -> BOOLEAN]
CompleteConfigs == {c \in Configs : \A f \in Range(RequiredFields) : c[f]}

\* new R2UploadService(r2Config) in initializeR2Service: the constructor
\* throws on a missing required field and the reference stays null
InitialService(cfg) ==
  IF \A f \in Range(RequiredFields) : cfg[f] THEN "ready" ELSE "null"

\* n recordings of earlier sessions, one per millisecond before Clock0
StoredBefore(n) == [i \in 1..n |-> [key |-> MakeKey(i, 1), size |-> 1]]

\* the state once the process is up: the configuration cfg, n recordings in
\* the bucket, the slots given by kinds, and the history either still empty
\* (the constructor's connection test failed) or loaded by the constructor
Startup(cfg, n, loaded, kinds) ==
  /\ r2Config = cfg
  /\ r2UploadService = InitialService(cfg)
  /\ store = StoredBefore(n)
  /\ clock = Clock0
  /\ proc = [q \in 1..Len(kinds) |-> IdleProc(kinds[q])]
  /\ LET vals == IF loaded /\ InitialService(cfg) = "ready"
                 THEN LoadedFiles(ListObjectsV2(StoredBefore(n)), Clock0)
                 ELSE <<>>
     IN  /\ uploadHistory = [i \in 1..Len(vals) |-> i]
         /\ files = [i \in 1..Len(vals) |-> vals[i]]

(* ------------- uploadAudio and loadHistory side by side: Spec ---------- *)
Init ==
  \E cfg \in CompleteConfigs, n \in 0..MaxStored, loaded \in BOOLEAN :
    Startup(cfg, n, loaded, <<"uploadAudio", "loadHistory">>)

Next ==
  \/ \E p \in Slots : uploadAudio(p)
  \/ \E p \in Slots : putObject(p)
  \/ \E p \in Slots : progressUpdates(p)
  \/ \E p \in Slots : uploadPromise(p)
  \/ \E p \in Slots : uploadTimeout(p)
  \/ \E p \in Slots : workerGet(p)
  \/ \E p \in Slots : workerTranscribe(p)
  \/ \E p \in Slots : uploadAudioKickoff(p)
  \/ \E p \in Slots : loadHistory(p)
  \/ \E p \in Slots : listObjectsV2(p)
  \/ \E p \in Slots : loadHistoryResume(p)

Spec == Init /\ [][Next]_vars

(* ------------------------- properties of Spec -------------------------- *)
UploadKinds == {"uploadAudio", "audio-data"}
Uploads == {p \in Slots : proc[p].kind \in UploadKinds}

IsUploadProgress(e) == e.ch = "upload-progress"
ProgressEvents(r) == SelectSeq(r.events, IsUploadProgress)

StageRank(stage) ==
  CASE stage = "preparing" -> 1
    [] stage = "uploading" -> 2
    [] stage = "processing" -> 3
    [] stage = "complete" -> 4

WriteUnsettled(r) == r.write \in {"sent", "stored", "refused"}

\* C4: in one uploadAudio call the progress events never go back to an
\* earlier stage and their progress never decreases; a call that returned
\* has {complete, 100} as its last progress event, and a call that raised
\* has no complete event
UploadProgressMonotone ==
  \A p \in Uploads :
    LET es == ProgressEvents(proc[p])
    IN  /\ \A i \in 1..(Len(es) - 1) :
             /\ StageRank(es[i].stage) <= StageRank(es[i + 1].stage)
             /\ es[i].progress <= es[i + 1].progress
        /\ proc[p].result = "returned" =>
             /\ es # <<>>
             /\ es[Len(es)].stage = "complete" /\ es[Len(es)].progress = 100
        /\ proc[p].result = "raised" =>
             \A i \in 1..Len(es) : es[i].stage # "complete"

\* a call returned after the interval had ticked and the timer fired late
UploadProgressMonotoneWitness ==
  \E p \in Uploads :
    /\ proc[p].result = "returned"
    /\ proc[p].timer = "fired"
    /\ \E i \in 1..Len(proc[p].events) :
         /\ proc[p].events[i].stage = "uploading"
         /\ proc[p].events[i].progress = TickStart + TickStep

\* C7: a call whose store write rejected has raised and has appended no
\* recording: its key is not in the in-memory history
RejectedWriteNotAppended ==
  \A p \in Uploads :
    proc[p].write = "rejected" =>
      /\ proc[p].result = "raised"
      /\ ~proc[p].appended
      /\ proc[p].key \notin HistoryKeys

\* the write rejected while interval and timer were both still running
RejectedWriteNotAppendedWitness ==
  \E p \in Uploads :
    /\ proc[p].write = "rejected"
    /\ proc[p].timer = "armed"
    /\ proc[p].progress > TickStart
    /\ proc[p].error # "Timeout"

\* C8: a call whose write is unsettled when the 60 s timer fires has raised
\* a timeout failure; from then on its outcome stays the timeout failure, it
\* never appends, and the step in which the write succeeds late leaves the
\* in-memory history as it was
TimeoutIsFinal ==
  [][\A p \in Uploads :
       /\ (proc'[p].timer = "fired" /\ WriteUnsettled(proc'[p])) =>
            (proc'[p].result = "raised" /\ proc'[p].error = "Timeout")
       /\ (proc[p].result = "raised" /\ proc[p].error = "Timeout") =>
            /\ proc'[p].result = "raised" /\ proc'[p].error = "Timeout"
            /\ ~proc'[p].appended
            /\ (WriteUnsettled(proc[p]) /\ proc'[p].write = "resolved") =>
                 uploadHistory' = uploadHistory
    ]_vars

\* the write succeeded after the call had raised the timeout failure
TimeoutIsFinalWitness ==
  \E p \in Uploads :
    /\ proc[p].result = "raised" /\ proc[p].error = "Timeout"
    /\ proc[p].write = "resolved"
    /\ proc[p].key \in StoreKeys(store)

(* ------------- the same calls against a full page: SpecPage ------------ *)
\* the bucket already holds one full page of recordings
InitPage ==
  \E cfg \in CompleteConfigs :
    Startup(cfg, MaxKeys, TRUE, <<"uploadAudio", "loadHistory">>)

SpecPage == InitPage /\ [][Next]_vars

Loads == {p \in Slots : proc[p].kind = "loadHistory"}
KeysOf(list) == {list[i].key : i \in 1..Len(list)}

\* <folder>/<timestamp>-<8 chars>.webm, the timestamp being the call's
KeyOfUpload(r) ==
  /\ r.key.folder = R2_FOLDER_NAME
  /\ r.key.ts = r.now
  /\ r.key.uid \in UIDs
  /\ r.key.ext = "webm"

\* C1: a call that returned has a key of the form
\* <folder>/<timestamp>-<8 chars>.webm, and every loadHistory call started
\* after it returned, no delete of the key in between, returns a list that
\* holds a recording with that key
UploadedKeyIsListed ==
  \A p \in Uploads :
    proc[p].result = "returned" =>
      /\ KeyOfUpload(proc[p])
      /\ \A q \in Loads :
           (/\ proc[q].result = "returned"
            /\ proc[p].key \in proc[q].uploadedBefore
            /\ proc[p].key \notin DeletedKeys)
             => proc[p].key \in KeysOf(proc[q].returned)

(* ------------- one upload, called or commanded: SpecInput -------------- *)
\* any configuration; the one slot is a direct call or an audio-data command
InitInput ==
  \E cfg \in Configs, n \in 0..MaxStored, loaded \in BOOLEAN,
     kind \in {"uploadAudio", "audio-data"} :
    Startup(cfg, n, loaded, <<kind>>)

NextInput ==
  \/ \E p \in Slots : uploadAudio(p)
  \/ \E p \in Slots : audioData(p)
  \/ \E p \in Slots : putObject(p)
  \/ \E p \in Slots : progressUpdates(p)
  \/ \E p \in Slots : uploadPromise(p)
  \/ \E p \in Slots : uploadTimeout(p)
  \/ \E p \in Slots : workerGet(p)
  \/ \E p \in Slots : workerTranscribe(p)
  \/ \E p \in Slots : uploadAudioKickoff(p)
  \/ \E p \in Slots : sendAudioHistoryProbe(p)
  \/ tick

SpecInput == InitInput /\ [][NextInput]_vars

\* the slot p is given an empty buffer in this step
EmptyBufferArrives(p) ==
  proc[p].pc = "idle" /\ proc'[p].pc # "idle" /\ proc'[p].size = 0

\* C2: uploadAudio called with an empty buffer raises the invalid-input
\* error with no progress event emitted and no store write issued; the
\* audio-data command with empty data sends an error status and does not
\* call uploadAudio; the in-memory history (and the store) stay as they
\* were, and nothing more happens for the call or command
EmptyBufferRejected ==
  [][\A p \in Slots :
       /\ EmptyBufferArrives(p) =>
            /\ uploadHistory' = uploadHistory /\ files' = files
            /\ store' = store
            /\ proc'[p].pc = "done"
            /\ proc'[p].write = "none" /\ proc'[p].io = "none"
            /\ proc'[p].timer = "none" /\ ~proc'[p].interval
            /\ proc'[p].key = NoKey
            /\ proc[p].kind = "uploadAudio" =>
                 /\ proc'[p].result = "raised"
                 /\ proc'[p].error = "Empty audio data provided"
                 /\ proc'[p].events = <<>>
            /\ proc[p].kind = "audio-data" =>
                 /\ proc'[p].result = "none"
                 /\ proc'[p].events =
                      <<UploadStatus("Error: Invalid audio data received", NoKey)>>
       /\ (proc[p].pc = "done" /\ proc[p].size = 0) => proc'[p] = proc[p]
    ]_vars

\* a direct call with an empty buffer has raised, the service being ready
\* and the history loaded
EmptyBufferRejectedWitness ==
  \E p \in Slots :
    /\ proc[p].kind = "uploadAudio"
    /\ proc[p].pc = "done" /\ proc[p].size = 0
    /\ proc[p].result = "raised"
    /\ uploadHistory # <<>>

\* C9: with a required configuration field empty, an audio-data command
\* that carries audio is answered with the status event that names the
\* missing fields, and no store or network call has been made
MissingConfigNamed ==
  \A p \in Slots :
    (/\ proc[p].kind = "audio-data"
     /\ proc[p].pc # "idle" /\ proc[p].size > 0
     /\ MissingConfigValues # <<>>)
      => /\ proc[p].events =
              <<Ev("upload-status", "", 0, "Missing R2 configuration", NoKey,
                   TRUE, MissingConfigValues)>>
         /\ proc[p].write = "none" /\ proc[p].io = "none"

(* ---------- deleteAudio and loadHistory side by side: SpecDelete ------- *)
InitDelete ==
  \E cfg \in CompleteConfigs, n \in 0..MaxStored, loaded \in BOOLEAN :
    Startup(cfg, n, loaded, <<"deleteAudio", "loadHistory">>)

NextDelete ==
  \/ \E p \in Slots : deleteAudio(p)
  \/ \E p \in Slots : deleteObject(p)
  \/ \E p \in Slots : deleteAudioResume(p)
  \/ \E p \in Slots : loadHistory(p)
  \/ \E p \in Slots : listObjectsV2(p)
  \/ \E p \in Slots : loadHistoryResume(p)

SpecDelete == InitDelete /\ [][NextDelete]_vars

Deletes == {p \in Slots : proc[p].kind \in {"deleteAudio", "delete-audio"}}

\* C3: once deleteAudio(K) has returned, K is neither in the store nor in
\* the in-memory history, and a loadHistory call started after that return
\* does not list K
DeletedEverywhere ==
  \A p \in Deletes :
    proc[p].result = "returned" =>
      /\ proc[p].key \notin StoreKeys(store)
      /\ proc[p].key \notin HistoryKeys
      /\ \A q \in Loads :
           (proc[q].result = "returned" /\ proc[p].key \in proc[q].deletedBefore)
             => proc[p].key \notin KeysOf(proc[q].returned)

(* ------ transcribe-audio next to another command: SpecTranscribe ------- *)
\* any configuration; a transcribe-audio command next to a delete-audio
\* command or to a second transcribe-audio command
InitTranscribe ==
  \E cfg \in Configs, n \in 0..MaxStored, loaded \in BOOLEAN,
     other \in {"delete-audio", "transcribe-audio"} :
    Startup(cfg, n, loaded, <<"transcribe-audio", other>>)

NextTranscribe ==
  \/ \E p \in Slots : transcribeAudio(p)
  \/ \E p \in Slots : progressInterval(p)
  \/ \E p \in Slots : workerGet(p)
  \/ \E p \in Slots : workerTranscribe(p)
  \/ \E p \in Slots : transcribeFetch(p)
  \/ \E p \in Slots : transcribeBody(p)
  \/ \E p \in Slots : deleteAudioCommand(p)
  \/ \E p \in Slots : deleteObject(p)
  \/ \E p \in Slots : deleteAudioResume(p)
  \/ \E p \in Slots : listObjectsV2(p)
  \/ \E p \in Slots : loadHistoryResume(p)
  \/ \E p \in Slots : sendAudioHistoryProbe(p)

SpecTranscribe == InitTranscribe /\ [][NextTranscribe]_vars

Transcribes == {p \in Slots : proc[p].kind = "transcribe-audio"}
DeleteCommands == {p \in Slots : proc[p].kind = "delete-audio"}

\* the two commands were in flight at the same time
Overlapped(p, q) == q \in proc[p].inflight \/ p \in proc[q].inflight

\* C5: a delete-audio(keyA) command and a transcribe-audio(keyA) command
\* were in flight at the same time; once both have settled, the delete
\* having succeeded, the in-memory history does not contain keyA
DeletedKeyNotResurrected ==
  \A p \in Transcribes, q \in DeleteCommands :
    (/\ proc[p].key = proc[q].key
     /\ Overlapped(p, q)
     /\ proc[p].pc = "done" /\ proc[q].pc = "done"
     /\ proc[q].result = "returned")
      => proc[p].key \notin HistoryKeys

\* the last two events of a failed command: negative progress, then the
\* status with success false
FailureReported(r) ==
  LET n == Len(r.events)
  IN  /\ n >= 2
      /\ r.events[n - 1] = TranscriptionProgress(-1, "Transcription failed", r.key)
      /\ r.events[n].ch = "transcription-status"
      /\ ~r.events[n].ok
      /\ r.events[n].key = r.key

\* the step is one of the command in slot p
StepOf(p) == proc'[p] # proc[p]

\* C6: when the endpoint looks up the key of a transcribe-audio command and
\* the store does not contain it, the endpoint answers 404 and the command
\* can only end in failure, with the negative progress event and the
\* status event with success false as its last events and no success
\* status; the steps of the command leave the in-memory history as it was
AbsentKeyFails ==
  [][\A p \in Transcribes :
       /\ proc'[p].absent =>
            /\ \/ /\ proc'[p].pc = "fetch" /\ proc'[p].io = "fetchReplied"
                  /\ proc'[p].resp = "404"
               \/ /\ proc'[p].pc = "json"
                  /\ proc'[p].resp \in {"404", "502 unparsable"}
               \/ /\ proc'[p].pc = "done" /\ proc'[p].result = "failed"
                  /\ FailureReported(proc'[p])
            /\ \A i \in 1..Len(proc'[p].events) :
                 /\ proc'[p].events[i].ch = "transcription-status"
                      => ~proc'[p].events[i].ok
                 /\ proc'[p].events[i].progress < 100
       /\ (StepOf(p) /\ (proc'[p].absent \/ proc'[p].pc = "fetch")) =>
            /\ uploadHistory' = uploadHistory
            /\ files' = files
    ]_vars

\* a command for a key that is not in the store was answered 404 and has
\* reported the failure, the history holding a recording
AbsentKeyFailsWitness ==
  \E p \in Transcribes :
    /\ proc[p].absent
    /\ proc[p].pc = "done" /\ proc[p].result = "failed"
    /\ proc[p].error = "Audio file not found"
    /\ uploadHistory # <<>>

\* the raw audio objects of the bucket
RawAudio(st) == SelectSeq(st, LAMBDA o : IsAudioKey(o.key))

\* C10: the steps of a transcribe-audio command that has not succeeded, the
\* failing one included, leave the in-memory history and the stored raw
\* audio objects unchanged (key, timestamp and size of every recording);
\* and once a command has failed, a transcribe-audio command for the same
\* key is taken up like any other: it is sent to the endpoint
FailedTranscribeKeepsRecording ==
  [][\A p \in Transcribes :
       /\ (StepOf(p) /\ proc'[p].result # "succeeded") =>
            /\ uploadHistory' = uploadHistory
            /\ files' = files
            /\ RawAudio(store') = RawAudio(store)
       /\ \A q \in Transcribes :
            (/\ proc'[p].result = "failed"
             /\ proc'[q].pc = "idle"
             /\ r2UploadService = "ready" /\ r2Config.workerUrl)
              => LET r == TranscribeBegin(proc'[q], proc'[p].key)
                 IN  /\ r.pc = "fetch" /\ r.io = "fetchSent"
                     /\ r.key = proc'[p].key
                     /\ r.result = "none"
    ]_vars

\* a command failed on a recording that is stored and in the history, and
\* a second command for the same key, sent after the failure, is in flight
FailedTranscribeKeepsRecordingWitness ==
  \E p \in Transcribes, q \in Transcribes :
    /\ p # q
    /\ proc[p].result = "failed"
    /\ proc[p].key \in StoreKeys(store) /\ proc[p].key \in HistoryKeys
    /\ proc[q].key = proc[p].key
    /\ proc[q].pc = "fetch"
    /\ ~Overlapped(p, q)

(* ------------- two uploadAudio calls side by side: SpecUploads --------- *)
\* no endpoint configured, the history loaded; two direct calls and a
\* loadHistory call, the write of each call settling before its interval
\* or its timer runs
InitUploads ==
  \E cfg \in {c \in CompleteConfigs : ~c.workerUrl}, n \in 0..MaxStored :
    Startup(cfg, n, TRUE, <<"uploadAudio", "uploadAudio", "loadHistory">>)

NextUploads ==
  \/ \E p \in Slots : uploadAudio(p)
  \/ \E p \in Slots : putObject(p)
  \/ \E p \in Slots : uploadPromise(p)
  \/ \E p \in Slots : loadHistory(p)
  \/ \E p \in Slots : listObjectsV2(p)
  \/ \E p \in Slots : loadHistoryResume(p)
  \/ tick

SpecUploads == InitUploads /\ [][NextUploads]_vars

\* C11: no two uploadAudio calls are assigned the same key, so the write of
\* one call never replaces the object another call stored
KeysNeverShared ==
  \A p \in Uploads, q \in Uploads :
    (p # q /\ proc[p].key # NoKey /\ proc[q].key # NoKey)
      => proc[p].key # proc[q].key

\* C12: the recording a successful call appends has the byte length of the
\* buffer as its size, and a loadHistory call started after the call
\* returned reports that size for the call's key
SizeIsBufferLength ==
  [][\A p \in Uploads :
       /\ (~proc[p].appended /\ proc'[p].appended) =>
            /\ uploadHistory' # <<>>
            /\ files'[uploadHistory'[1]].key = proc'[p].key
            /\ files'[uploadHistory'[1]].size = proc'[p].size
       /\ proc'[p].result = "returned" =>
            \A q \in Loads :
              (/\ proc'[q].result = "returned"
               /\ proc'[p].key \in proc'[q].uploadedBefore)
                => \A i \in 1..Len(proc'[q].returned) :
                     proc'[q].returned[i].key = proc'[p].key
                       => proc'[q].returned[i].size = proc'[p].size
    ]_vars

(* ------------------------------ keys as text --------------------------- *)
\* a text is the sequence of its characters
Digit == <<"0", "1", "2", "3", "4", "5", "6", "7", "8", "9">>
Digits == Range(Digit)
Letters == {"a", "b", "c", "d", "e", "f", "g", "h", "i", "j", "k", "l", "m",
            "n", "o", "p", "q", "r", "s", "t", "u", "v", "w", "x", "y", "z"}

DigitValue(c) == CHOOSE d \in 0..9 : Digit[d + 1] = c

\* String(n).padStart(k, "0")
Decimal(n, k) == [i \in 1..k |-> Digit[((n \div (10 ^ (k - i))) % 10) + 1]]

\* the number a text of digits denotes
NumberOf(s) ==
  LET f[i \in 0..Len(s)] ==
        IF i = 0 THEN 0 ELSE 10 * f[i - 1] + DigitValue(s[i])
  IN  f[Len(s)]

\* s.split(sep), sep one character
Split(s, sep) ==
  LET at == {i \in 1..Len(s) : s[i] = sep}
      cut(k) == IF k = 0 THEN 0
                ELSE IF k > Cardinality(at) THEN Len(s) + 1
                ELSE CHOOSE i \in at : Cardinality({j \in at : j < i}) = k - 1
  IN  [k \in 1..(Cardinality(at) + 1) |-> SubSeq(s, cut(k - 1) + 1, cut(k) - 1)]

\* s.replace(c, ""), c one character: the first occurrence goes
RemoveFirst(s, c) ==
  IF c \notin Range(s) THEN s
  ELSE LET i == CHOOSE j \in 1..Len(s) : s[j] = c /\ \A k \in 1..(j - 1) : s[k] # c
       IN  SubSeq(s, 1, i - 1) \o SubSeq(s, i + 1, Len(s))

\* s.replace(/[...]/g, c): every character of the set becomes c
ReplaceAll(s, set, c) == [i \in 1..Len(s) |-> IF s[i] \in set THEN c ELSE s[i]]

(* ------------------------------- instants ------------------------------ *)
\* a time value: the day since 1970-01-01 and the millisecond of the day
Instant(day, ms) == [day |-> day, ms |-> ms]

\* MakeDay: the day number of year y, month m (1..12), day of month d; a
\* day of month past the end of the month runs on into the next month
DaysFromCivil(y, m, d) ==
  LET yy  == IF m <= 2 THEN y - 1 ELSE y
      era == yy \div 400
      yoe == yy - era * 400
      mp  == IF m > 2 THEN m - 3 ELSE m + 9
      doy == (153 * mp + 2) \div 5 + d - 1
      doe == yoe * 365 + yoe \div 4 - yoe \div 100 + doy
  IN  era * 146097 + doe - 719468

\* YearFromTime, MonthFromTime, DateFromTime of a day number
CivilFromDays(day) ==
  LET z   == day + 719468
      era == z \div 146097
      doe == z - era * 146097
      yoe == (doe - doe \div 1460 + doe \div 36524 - doe \div 146096) \div 365
      doy == doe - (365 * yoe + yoe \div 4 - yoe \div 100)
      mp  == (5 * doy + 2) \div 153
      m   == IF mp < 10 THEN mp + 3 ELSE mp - 9
  IN  [y |-> yoe + era * 400 + (IF m <= 2 THEN 1 ELSE 0), m |-> m,
       d |-> doy - (153 * mp + 2) \div 5 + 1]

\* Date.prototype.toISOString, for the years 0000 to 9999
ToISOString(t) ==
  LET c == CivilFromDays(t.day)
  IN  Decimal(c.y, 4) \o <<"-">> \o Decimal(c.m, 2) \o <<"-">> \o Decimal(c.d, 2)
        \o <<"T">> \o Decimal(t.ms \div 3600000, 2)
        \o <<":">> \o Decimal((t.ms \div 60000) % 60, 2)
        \o <<":">> \o Decimal((t.ms \div 1000) % 60, 2)
        \o <<".">> \o Decimal(t.ms % 1000, 3) \o <<"Z">>

\* in a pattern "d" stands for \d and "w" for [a-z0-9]; any other character
\* stands for itself
ClassOf(c, x) ==
  CASE c = "d" -> x \in Digits
    [] c = "w" -> x \in Digits \cup Letters
    [] OTHER -> x = c

\* the pattern matches the text from position i on
MatchesAt(s, i, pat) ==
  /\ i + Len(pat) - 1 <= Len(s)
  /\ \A k \in 1..Len(pat) : ClassOf(pat[k], s[i + k - 1])

IsoLong == <<"d", "d", "d", "d", "-", "d", "d", "-", "d", "d", "T",
             "d", "d", ":", "d", "d", ":", "d", "d", ".", "d", "d", "d", "Z">>
IsoShort == <<"d", "d", "d", "d", "-", "d", "d", "-", "d", "d", "T",
              "d", "d", ":", "d", "d", ":", "d", "d", "Z">>

\* new Date(text) for a text of one of the two date-time forms the service
\* builds, as the engine of the main process parses it: month 1..12, day of
\* month 1..31 whatever the month, 24:00:00.000 allowed; valid is FALSE for
\* a time value of NaN
DateParse(text) ==
  LET long == Len(text) = Len(IsoLong) /\ MatchesAt(text, 1, IsoLong)
      short == Len(text) = Len(IsoShort) /\ MatchesAt(text, 1, IsoShort)
      y  == NumberOf(SubSeq(text, 1, 4))
      mo == NumberOf(SubSeq(text, 6, 7))
      d  == NumberOf(SubSeq(text, 9, 10))
      h  == NumberOf(SubSeq(text, 12, 13))
      mi == NumberOf(SubSeq(text, 15, 16))
      sec == NumberOf(SubSeq(text, 18, 19))
      ms == IF long THEN NumberOf(SubSeq(text, 21, 23)) ELSE 0
      ok == /\ mo \in 1..12 /\ d \in 1..31
            /\ \/ h <= 23 /\ mi <= 59 /\ sec <= 59
               \/ h = 24 /\ mi = 0 /\ sec = 0 /\ ms = 0
  IN  IF (long \/ short) /\ ok
      THEN [valid |-> TRUE,
            day |-> DaysFromCivil(y, mo, d) + (IF h = 24 THEN 1 ELSE 0),
            ms |-> IF h = 24 THEN 0
                   ELSE h * 3600000 + mi * 60000 + sec * 1000 + ms]
      ELSE [valid |-> FALSE, day |-> 0, ms |-> 0]

(* ----------------------- extractTimestampFromKey ----------------------- *)
\* the capture group of the pattern: \d{4}-\d{2}-\d{2}T\d{2}-\d{2}-\d{2},
\* with and without (?:-\d{3})?, then Z
ShortGroup == <<"d", "d", "d", "d", "-", "d", "d", "-", "d", "d", "T",
                "d", "d", "-", "d", "d", "-", "d", "d", "Z">>
LongGroup == <<"d", "d", "d", "d", "-", "d", "d", "-", "d", "d", "T",
               "d", "d", "-", "d", "d", "-", "d", "d", "-", "d", "d", "d", "Z">>
\* -[a-z0-9]+ : a hyphen and the first character of the run
GroupTail == <<"-", "w">>

\* key.match(/(...)-[a-z0-9]+/): the first group of the leftmost match, the
\* optional part tried first; <<>> for null
KeyMatch(key) ==
  LET long(i) == MatchesAt(key, i, LongGroup \o GroupTail)
      short(i) == MatchesAt(key, i, ShortGroup \o GroupTail)
      starts == {i \in 1..Len(key) : long(i) \/ short(i)}
  IN  IF starts = {} THEN <<>>
      ELSE LET i == CHOOSE j \in starts : \A k \in starts : j <= k
           IN  IF long(i) THEN SubSeq(key, i, i + Len(LongGroup) - 1)
               ELSE SubSeq(key, i, i + Len(ShortGroup) - 1)

\* the time part with its hyphens turned into the separators of a date-time
FormattedTime(timePart) ==
  LET timeComponents == Split(timePart, "-")
  IN  IF "-" \in Range(timePart)
      THEN IF Len(timeComponents) > 3
           THEN timeComponents[1] \o <<":">> \o timeComponents[2] \o <<":">>
                  \o timeComponents[3] \o <<".">>
                  \o RemoveFirst(timeComponents[4], "Z") \o <<"Z">>
           ELSE timeComponents[1] \o <<":">> \o timeComponents[2] \o <<":">>
                  \o timeComponents[3]
      ELSE timePart

\* mutant: the date built from the text is not looked at
InvalidDateIgnored(isoTimestamp) == FALSE

\* isNaN(new Date(isoTimestamp).getTime())
InvalidDate(isoTimestamp) == ~DateParse(isoTimestamp).valid

\* the try block: the text it returns, or the error it throws
ExtractTry(key) ==
  LET match == KeyMatch(key)
      parts == Split(match, "T")
      isoTimestamp == parts[1] \o <<"T">> \o FormattedTime(parts[2])
  IN  IF match = <<>>
      THEN [threw |-> TRUE, error |-> "Invalid key format", value |-> <<>>]
      ELSE IF Len(parts) < 2 \/ parts[1] = <<>> \/ parts[2] = <<>>
      THEN [threw |-> TRUE, error |-> "Invalid timestamp format", value |-> <<>>]
      ELSE IF InvalidDate(isoTimestamp)
      THEN [threw |-> TRUE, error |-> "Invalid date", value |-> <<>>]
      ELSE [threw |-> FALSE, error |-> "", value |-> isoTimestamp]

\* extractTimestampFromKey(key) on the text of the key, at the instant now:
\* whatever the try block throws is caught and answered with the time
extractTimestampFromKeyText(key, now) ==
  LET r == ExtractTry(key)
  IN  IF r.threw THEN ToISOString(now) ELSE r.value

(* ------------- extractTimestampFromKey on its own: SpecTimestamp ------- *)
\* the date-time fields a key is written with, possible and impossible ones
StampFields ==
  [y : {2024}, mo : {0, 2, 12, 13}, d : {0, 29, 31, 32}, h : {0, 23, 24, 25},
   mi : {0, 59, 60}, s : {0, 60}, ms : {0, 999}]

\* the fields written as in a key: YYYY-MM-DDTHH-MM-SS-mmmZ, or without the
\* milliseconds
Stamp(f, millis) ==
  Decimal(f.y, 4) \o <<"-">> \o Decimal(f.mo, 2) \o <<"-">> \o Decimal(f.d, 2)
    \o <<"T">> \o Decimal(f.h, 2) \o <<"-">> \o Decimal(f.mi, 2)
    \o <<"-">> \o Decimal(f.s, 2)
    \o (IF millis THEN <<"-">> \o Decimal(f.ms, 3) ELSE <<>>) \o <<"Z">>

FolderText == <<"a", "u", "d", "i", "o">>
TranscriptionsText ==
  <<"t", "r", "a", "n", "s", "c", "r", "i", "p", "t", "i", "o", "n", "s">>
WebmText == <<".", "w", "e", "b", "m">>
JsonText == <<".", "j", "s", "o", "n">>
\* the first 8 characters of a uuid
UidText(uid) == <<"a", "3", "f", "0", "9", "c", "0">> \o <<Digit[uid + 1]>>

KeyShapes == {"generated", "seconds", "bare", "noid", "upper", "colons",
              "longyear", "transcript", "nostamp"}

\* a key of the given shape around the fields f
KeyText(shape, f) ==
  CASE shape = "generated" ->
         FolderText \o <<"/">> \o Stamp(f, TRUE) \o <<"-">> \o UidText(1) \o WebmText
    [] shape = "seconds" ->
         FolderText \o <<"/">> \o Stamp(f, FALSE) \o <<"-">> \o UidText(1) \o WebmText
    [] shape = "bare" -> Stamp(f, TRUE) \o <<"-">> \o UidText(2)
    [] shape = "noid" -> FolderText \o <<"/">> \o Stamp(f, TRUE) \o WebmText
    [] shape = "upper" ->
         FolderText \o <<"/">> \o Stamp(f, TRUE) \o <<"-", "A", "3", "F">> \o WebmText
    [] shape = "colons" ->
         FolderText \o <<"/">>
           \o ReplaceAll(Stamp(f, FALSE), {"-"}, ":") \o <<"-">> \o UidText(1) \o WebmText
    [] shape = "longyear" ->
         FolderText \o <<"/", "1">> \o Stamp(f, TRUE) \o <<"-">> \o UidText(1) \o WebmText
    [] shape = "transcript" ->
         FolderText \o <<"/">> \o TranscriptionsText \o <<"/">> \o Stamp(f, TRUE)
           \o <<"-">> \o UidText(1) \o WebmText \o JsonText
    [] shape = "nostamp" ->
         SubSeq(FolderText \o <<"/">> \o UidText(1) \o WebmText, 1, f.mo)

\* the instants at which the function is called
CallInstants == {Instant(0, 101), Instant(DaysFromCivil(2024, 12, 31), 86399999)}

\* one call of extractTimestampFromKey, with the key and the instant given
InitTimestamp ==
  \E shape \in KeyShapes, f \in StampFields, now \in CallInstants :
    /\ r2Config = [x \in ConfigFields |-> TRUE]
    /\ r2UploadService = "ready"
    /\ uploadHistory = <<>> /\ files = <<>> /\ store = <<>>
    /\ clock = Clock0
    /\ proc = <<[kind |-> "extractTimestampFromKey", pc |-> "idle",
                 shape |-> shape, fields |-> f, text |-> KeyText(shape, f),
                 now |-> now, result |-> "none", error |-> "", value |-> <<>>]>>

\* the call runs: the function has no await
extractTimestampCall(p) ==
  /\ proc[p].kind = "extractTimestampFromKey" /\ proc[p].pc = "idle"
  /\ proc' = [proc EXCEPT ![p].pc = "done", ![p].result = "returned",
                          ![p].error = ExtractTry(proc[p].text).error,
                          ![p].value = extractTimestampFromKeyText(proc[p].text,
                                                                   proc[p].now)]
  /\ UNCHANGED <<r2Config, r2UploadService, uploadHistory, files, store, clock>>

NextTimestamp == \E p \in Slots : extractTimestampCall(p)

SpecTimestamp == InitTimestamp /\ [][NextTimestamp]_vars

ExtractCalls == {p \in Slots : proc[p].kind = "extractTimestampFromKey"}

\* the shapes in which the pattern finds a timestamp and an id
MatchingShapes == {"generated", "seconds", "bare", "longyear", "transcript"}

\* the fields name a date and a time of day the engine accepts
AcceptedFields(f) ==
  /\ f.mo \in 1..12 /\ f.d \in 1..31
  /\ \/ f.h <= 23 /\ f.mi <= 59 /\ f.s <= 59
     \/ f.h = 24 /\ f.mi = 0 /\ f.s = 0

\* C13: for every key text (one that matches the pattern, a malformed one,
\* one that matches with an impossible date) the call returns, never
\* raises, and what it returns parses to a valid instant; when the key
\* cannot be parsed, it is the current time
TimestampIsTotal ==
  \A p \in ExtractCalls :
    proc[p].pc = "done" =>
      /\ proc[p].result = "returned"
      /\ DateParse(proc[p].value).valid
      /\ (proc[p].shape \notin MatchingShapes \/ ~AcceptedFields(proc[p].fields))
           => proc[p].value = ToISOString(proc[p].now)

\* a key of the generated form with month 13 was answered with the time of
\* the call
TimestampIsTotalWitness ==
  \E p \in ExtractCalls :
    /\ proc[p].pc = "done"
    /\ proc[p].shape = "generated" /\ proc[p].fields.mo = 13
    /\ proc[p].fields.d = 29 /\ proc[p].fields.h = 23
    /\ proc[p].error = "Invalid date"
    /\ proc[p].value = ToISOString(proc[p].now)

(* -------------------------- transcript keys as text -------------------- *)
\* key.split("/").pop()
LastSegment(key) == Split(key, "/")[Len(Split(key, "/"))]

\* s with the suffix suf taken off its end, if it ends with it
StripSuffix(s, suf) ==
  IF Len(s) >= Len(suf) /\ SubSeq(s, Len(s) - Len(suf) + 1, Len(s)) = suf
  THEN SubSeq(s, 1, Len(s) - Len(suf))
  ELSE s

\* mutant: the extension of the file name is dropped before ".json" is added
FileNameStem(key) == Split(LastSegment(key), ".")[1]

\* const filename = key.split("/").pop()
FileName(key) == LastSegment(key)

\* `${r2FolderName}/transcriptions/${filename}.json`
TranscriptionKeyText(r2FolderName, filename) ==
  r2FolderName \o <<"/">> \o TranscriptionsText \o <<"/">> \o filename \o JsonText

\* the endpoint: the folder is the environment setting,
\* else the first path part of a key that has more than one, else "audio"
WorkerTranscriptionKey(key, envFolder) ==
  LET pathParts == Split(key, "/")
      r2FolderName == IF envFolder # <<>> THEN envFolder
                      ELSE IF Len(pathParts) > 1 THEN pathParts[1]
                      ELSE FolderText
  IN  TranscriptionKeyText(r2FolderName, FileName(key))

\* sendAudioHistory: the folder is the first path part of a key that has a
\* non-empty one followed by "/", else the environment setting, else "audio"
ClientTranscriptionKey(key, envFolder) ==
  LET pathParts == Split(key, "/")
      R2_FOLDER == IF envFolder # <<>> THEN envFolder ELSE FolderText
      r2FolderName == IF "/" \in Range(key) /\ Len(pathParts) > 1
                         /\ pathParts[1] # <<>>
                      THEN pathParts[1]
                      ELSE R2_FOLDER
  IN  TranscriptionKeyText(r2FolderName, FileName(key))

(* ------------- the transcript key on its own: SpecTranscriptKey -------- *)
\* greatest number of path segments of a raw key
MaxSegments == 3

\* the path segments raw keys are made of
SegmentTexts ==
  {<<>>, <<"a">>, FolderText, TranscriptionsText, <<"x">> \o WebmText,
   <<"x">> \o WebmText \o JsonText, JsonText}

\* segs.join("/")
JoinSegments(segs) ==
  LET f[i \in 0..Len(segs)] ==
        IF i = 0 THEN <<>>
        ELSE IF i = 1 THEN segs[1]
        ELSE f[i - 1] \o <<"/">> \o segs[i]
  IN  f[Len(segs)]

RawKeyTexts ==
  UNION {{JoinSegments(segs) : segs \in [1..n -> SegmentTexts]} : n \in 1..MaxSegments}

\* the values of the folder-name setting: unset, "audio", another, a nested one
FolderSettings == {<<>>, FolderText, <<"r", "e", "c">>, <<"a", "/", "b">>}

\* one derivation of the transcript key, by the endpoint or by the client
InitTranscriptKey ==
  \E key \in RawKeyTexts, env \in FolderSettings,
     kind \in {"/transcribe", "sendAudioHistory"} :
    /\ r2Config = [x \in ConfigFields |-> TRUE]
    /\ r2UploadService = "ready"
    /\ uploadHistory = <<>> /\ files = <<>> /\ store = <<>>
    /\ clock = Clock0
    /\ proc = <<[kind |-> kind, pc |-> "idle", text |-> key, env |-> env,
                 result |-> "none", value |-> <<>>]>>

\* the endpoint derives the key under which it stores the transcript; a
\* request without a key was answered 400 before
workerTranscriptionKey(p) ==
  /\ proc[p].kind = "/transcribe" /\ proc[p].pc = "idle"
  /\ proc' = [proc EXCEPT ![p] =
       IF proc[p].text = <<>>
       THEN [@ EXCEPT !.pc = "done", !.result = "400"]
       ELSE [@ EXCEPT !.pc = "done", !.result = "returned",
                      !.value = WorkerTranscriptionKey(proc[p].text,
                                                       proc[p].env)]]
  /\ UNCHANGED <<r2Config, r2UploadService, uploadHistory, files, store, clock>>

\* sendAudioHistory derives the key it probes for the transcript of a file
clientTranscriptionKey(p) ==
  /\ proc[p].kind = "sendAudioHistory" /\ proc[p].pc = "idle"
  /\ proc' = [proc EXCEPT ![p].pc = "done", ![p].result = "returned",
                          ![p].value = ClientTranscriptionKey(proc[p].text,
                                                              proc[p].env)]
  /\ UNCHANGED <<r2Config, r2UploadService, uploadHistory, files, store, clock>>

NextTranscriptKey ==
  \/ \E p \in Slots : workerTranscriptionKey(p)
  \/ \E p \in Slots : clientTranscriptionKey(p)

SpecTranscriptKey == InitTranscriptKey /\ [][NextTranscriptKey]_vars

KeyDerivations == {p \in Slots : proc[p].kind \in {"/transcribe", "sendAudioHistory"}}

\* C14: the last path segment of the transcript key derived from a raw key,
\* with the suffix ".json" taken off, is the last path segment of the raw
\* key, at the endpoint and in the client
TranscriptKeepsFileName ==
  \A p \in KeyDerivations :
    proc[p].result = "returned" =>
      StripSuffix(LastSegment(proc[p].value), JsonText) = LastSegment(proc[p].text)

\* the endpoint, the folder setting unset, derived the key for audio/x.webm
TranscriptKeepsFileNameWitness ==
  \E p \in KeyDerivations :
    /\ proc[p].kind = "/transcribe" /\ proc[p].result = "returned"
    /\ proc[p].env = <<>>
    /\ proc[p].text = FolderText \o <<"/", "x">> \o WebmText
    /\ proc[p].value = FolderText \o <<"/">> \o TranscriptionsText
                         \o <<"/", "x">> \o WebmText \o JsonText

(* ------------------- properties of the /transcribe endpoint ------------ *)
\* the endpoint takes a step for the request of slot p
EndpointLooksUp(p) ==
  proc[p].io = "fetchSent" /\ proc'[p].io \in {"fetchProvider", "fetchReplied"}
EndpointAnswers(p) ==
  proc[p].io # "fetchReplied" /\ proc'[p].io = "fetchReplied"

\* C15: the endpoint writes a transcript object exactly when it answers
\* success: success is answered in the step that has stored the transcript,
\* only after the provider was called; an answer of 404 or 500 comes with
\* no write; and the provider is called only for an object that is there
TranscriptWrittenOnSuccess ==
  [][\A p \in Slots :
       /\ EndpointLooksUp(p) =>
            /\ store' = store
            /\ proc'[p].io = "fetchProvider" <=> proc[p].key \in StoreKeys(store)
            /\ proc'[p].io = "fetchReplied" => proc'[p].resp = "404"
       /\ EndpointAnswers(p) =>
            /\ proc'[p].resp = "200" =>
                 /\ proc[p].io = "fetchProvider"
                 /\ TranscriptionKey(proc[p].key) \in StoreKeys(store')
                 /\ RawAudio(store') = RawAudio(store)
            /\ proc'[p].resp # "200" => store' = store
    ]_vars

\* one request was answered 200 with its transcript stored, another 404
\* with none
TranscriptWrittenOnSuccessWitness ==
  \E p \in Slots, q \in Slots :
    /\ proc[p].io = "fetchReplied" /\ proc[p].resp = "200"
    /\ TranscriptionKey(proc[p].key) \in StoreKeys(store)
    /\ proc[q].io = "fetchReplied" /\ proc[q].resp = "404"
    /\ TranscriptionKey(proc[q].key) \notin StoreKeys(store)

(* ------------- one transcribe-audio command alone: SpecTicks ----------- *)
\* an endpoint is configured; the command is followed through all the
\* callbacks of its interval
InitTicks ==
  \E cfg \in {c \in CompleteConfigs : c.workerUrl}, n \in 0..MaxStored,
     loaded \in BOOLEAN :
    Startup(cfg, n, loaded, <<"transcribe-audio">>)

NextTicks ==
  \/ \E p \in Slots : transcribeAudio(p)
  \/ \E p \in Slots : progressInterval(p)
  \/ \E p \in Slots : workerGet(p)
  \/ \E p \in Slots : workerTranscribe(p)
  \/ \E p \in Slots : transcribeFetch(p)
  \/ \E p \in Slots : transcribeBody(p)
  \/ \E p \in Slots : listObjectsV2(p)
  \/ \E p \in Slots : loadHistoryResume(p)
  \/ \E p \in Slots : sendAudioHistoryProbe(p)

SpecTicks == InitTicks /\ [][NextTicks]_vars

IsTranscriptionProgress(e) == e.ch = "transcription-progress"
\* the events sent by the interval callback
IsTick(e) ==
  /\ IsTranscriptionProgress(e)
  /\ e.msg \in {"Transcribing audio...", "Processing transcription results..."}
\* the progress event that ends a command: 100, or the negative one
IsTerminal(e) ==
  IsTranscriptionProgress(e) /\ (e.progress = 100 \/ e.progress < 0)

TickEvents(r) == SelectSeq(r.events, IsTick)

\* C16: once the terminal progress event of a command has been sent (100,
\* or the negative one), no tick event of its interval follows
NoTickAfterTerminal ==
  \A p \in Transcribes :
    \A i \in 1..Len(proc[p].events), j \in 1..Len(proc[p].events) :
      (i < j /\ IsTerminal(proc[p].events[i])) => ~IsTick(proc[p].events[j])

\* C18: the tick events of a command carry 15, 20, ...: each 5 above the
\* one before, starting 5 above the 10 sent before the interval, and none
\* above 95 however many callbacks run
TicksRiseByFive ==
  \A p \in Transcribes :
    LET ticks == TickEvents(proc[p])
    IN  /\ \A i \in 1..Len(ticks) :
             /\ ticks[i].progress = 10 + 5 * i
             /\ ticks[i].progress <= 95
        /\ (proc[p].tinterval /\ proc[p].tprogress <= 95)
             => proc[p].tprogress = 10 + 5 * Len(ticks)

\* the callback has run past the cap: 17 tick events, the last one 95, and
\* the counter at 100
TicksRiseByFiveWitness ==
  \E p \in Transcribes :
    /\ proc[p].tinterval /\ proc[p].tprogress = 100
    /\ Len(TickEvents(proc[p])) = 17
    /\ TickEvents(proc[p])[17].progress = 95

IsTranscriptionStatus(e) == e.ch = "transcription-status"

\* C20: when the transcription-status event of a command has been sent,
\* on success or on any failure, its interval is cleared, and so it is
\* when the command has ended; a command that fails before the interval is
\* started has sent no progress event but the negative one and has no
\* interval
IntervalClearedOnExit ==
  \A p \in Transcribes :
    /\ (\E i \in 1..Len(proc[p].events) : IsTranscriptionStatus(proc[p].events[i]))
         => ~proc[p].tinterval
    /\ proc[p].pc \in {"done", "list", "probe"} => ~proc[p].tinterval
    /\ proc[p].tinterval => proc[p].pc \in {"fetch", "json"}
    /\ (proc[p].result = "failed"
        /\ proc[p].error \in {"R2 upload service not initialized",
                              "Worker URL not configured"})
         => /\ ~proc[p].tinterval
            /\ Len(proc[p].events) = 2
            /\ TickEvents(proc[p]) = <<>>

\* one command failed on an answer that could not be parsed, after its
\* interval had ticked; another failed for want of an endpoint or service
IntervalClearedOnExitWitness ==
  \E p \in Transcribes, q \in Transcribes :
    /\ proc[p].result = "failed"
    /\ proc[p].error \in {"invalid json", "Transcription failed with status"}
    /\ TickEvents(proc[p]) # <<>>
    /\ ~proc[p].tinterval
    /\ proc[q].result = "succeeded" /\ TickEvents(proc[q]) # <<>>
    /\ ~proc[q].tinterval

(* --------------- the 500 ms interval of uploadAudio (Spec) ------------- *)
IsUploading(e) == IsUploadProgress(e) /\ e.stage = "uploading"

\* C17: while the store write of a call is in flight (its answer has not
\* reached the call), every uploading event sent so far has progress below
\* 50: 50 in stage uploading is only sent once the write has resolved
TicksBelowFifty ==
  \A p \in Uploads :
    WriteUnsettled(proc[p]) =>
      \A i \in 1..Len(proc[p].events) :
        IsUploading(proc[p].events[i]) => proc[p].events[i].progress < TickCap

\* C19: once a call has returned or raised (write success, write failure,
\* 60 s timeout), its 500 ms interval is no longer active
IntervalStopsWithCall ==
  \A p \in Uploads :
    proc[p].result \in {"returned", "raised"} => ~proc[p].interval

(* ------------- the write that settles after the timeout (Spec) --------- *)
\* the call has raised the timeout failure
TimedOut(r) == r.result = "raised" /\ r.error = "Timeout"

\* C21: once a call has raised because of the 60 s timeout, no step adds a
\* progress event to it: the settlement of its write, on success or on
\* failure, reports nothing
LateWriteIsSilent ==
  [][\A p \in Uploads :
       TimedOut(proc[p]) => ProgressEvents(proc'[p]) = ProgressEvents(proc[p])
    ]_vars

(* ------------- the end of a transcribe-audio command (SpecTicks) ------- *)
\* the command has sent a progress event of 100, a negative one
SentHundred(r) ==
  \E i \in 1..Len(r.events) :
    IsTranscriptionProgress(r.events[i]) /\ r.events[i].progress = 100
SentNegative(r) ==
  \E i \in 1..Len(r.events) :
    IsTranscriptionProgress(r.events[i]) /\ r.events[i].progress < 0

\* the transcription-status events of the command
StatusEvents(r) == SelectSeq(r.events, IsTranscriptionStatus)

\* C22: a command never sends both a progress event of 100 and a negative
\* one; a command that has ended with a failure status has sent no 100, and
\* one that has ended with a success status has sent no negative event
TerminalMatchesOutcome ==
  \A p \in Transcribes :
    /\ ~(SentHundred(proc[p]) /\ SentNegative(proc[p]))
    /\ proc[p].result = "failed" => ~SentHundred(proc[p])
    /\ proc[p].result = "succeeded" => ~SentNegative(proc[p])

\* the command has ended: its status was sent (the refresh of the history
\* that follows a success may still be going on)
Ended(r) == r.result \in {"succeeded", "failed"}

\* the command arrives in this step
CommandArrives(p) == proc[p].pc = "idle" /\ proc'[p].pc # "idle"

\* C23: a command has sent no status event until it ends and exactly one,
\* with success true or false as it succeeded or failed, from then on; the
\* step in which the fetch fails or the body of the answer has been read
\* ends it; with the service not initialised or no endpoint configured the
\* command fails in the step in which it arrives, no request being sent
OneStatusPerCommand ==
  [][\A p \in Transcribes :
       LET r == proc'[p]
           st == StatusEvents(r)
       IN  /\ ~Ended(r) => (st = <<>> /\ r.pc \in {"idle", "fetch", "json"})
           /\ Ended(r) =>
                /\ Len(st) = 1
                /\ st[1].ok <=> r.result = "succeeded"
                /\ st[1].key = r.key
                /\ r.pc \in {"list", "probe", "done"}
           /\ (proc[p].pc \in {"fetch", "json"} /\ r.pc \notin {"fetch", "json"})
                => Ended(r)
           /\ (proc[p].pc = "json" /\ r.pc = "json") => r.resp = proc[p].resp
           /\ (CommandArrives(p) /\ (r2UploadService = "null" \/ ~r2Config.workerUrl)) =>
                /\ r.result = "failed" /\ r.pc = "done"
                /\ r.io = "none"
                /\ store' = store
           /\ (Ended(proc[p]) /\ proc[p].result = "failed") => r = proc[p]
    ]_vars

\* one command has succeeded and another has failed on a lost request, each
\* with its one status event
OneStatusPerCommandWitness ==
  \E p \in Transcribes, q \in Transcribes :
    /\ proc[p].result = "succeeded" /\ proc[p].pc = "done"
    /\ Len(StatusEvents(proc[p])) = 1
    /\ proc[q].result = "failed"
    /\ proc[q].error = "Failed to connect to transcription service"
    /\ Len(StatusEvents(proc[q])) = 1

(* ------------- the end of an uploadAudio call (Spec) ------------------- *)
\* the call has returned its key, the complete event being its last one
ReturnedComplete(r) ==
  LET es == ProgressEvents(r)
  IN  /\ r.result = "returned" /\ r.key # NoKey
      /\ es # <<>>
      /\ es[Len(es)] = UploadProgress("complete", 100,
                                      "Upload successfully completed", r.key)

\* the race of the call in slot p is settled by the success of its write
WriteWins(p) ==
  proc[p].pc = "race" /\ proc[p].write = "stored" /\ proc'[p].write = "resolved"

\* C24: the step in which the successful write settles the race puts the
\* recording at the head of the in-memory history, with the signed URL or,
\* when none could be generated, with an empty one; in both cases the call
\* does not raise: it returns its key after the complete event, at once or
\* when the kick-off request has settled
EmptyUrlStillAppends ==
  [][\A p \in Uploads :
       /\ WriteWins(p) =>
            /\ proc'[p].appended
            /\ uploadHistory' # <<>>
            /\ files'[uploadHistory'[1]].key = proc[p].key
            /\ files'[uploadHistory'[1]].url \in {"url", ""}
            /\ Tail(uploadHistory') = uploadHistory
            /\ proc'[p].pc = "kickoff" \/ ReturnedComplete(proc'[p])
       /\ (proc[p].pc = "kickoff" /\ proc'[p].pc # "kickoff") =>
            ReturnedComplete(proc'[p])
       /\ proc'[p].appended => proc'[p].result # "raised"
    ]_vars

\* a call has returned and the recording it put at the head of the history
\* has an empty URL
EmptyUrlStillAppendsWitness ==
  \E p \in Uploads :
    /\ ReturnedComplete(proc[p])
    /\ uploadHistory # <<>>
    /\ files[uploadHistory[1]].key = proc[p].key
    /\ files[uploadHistory[1]].url = ""

\* the kick-off request of the call in slot p settles in this step
KickoffSettles(p) == proc[p].pc = "kickoff" /\ proc'[p].pc # "kickoff"

\* the answer the endpoint has given to the request of r, if any
Answered(r) == r.io = "fetchReplied"

\* C25: the step in which the kick-off request settles, however it does,
\* leaves the in-memory history as it was, adds the progress event 95 and
\* then complete / 100 and returns the key; the message of the 95 event is
\* the only thing that tells the outcomes apart: "in progress" after a
\* success answer, "skipped" after a non-success answer, "skipped due to
\* error" when the request failed
KickoffNeverFailsUpload ==
  [][\A p \in Uploads :
       KickoffSettles(p) =>
         LET es == ProgressEvents(proc[p])
             es1 == ProgressEvents(proc'[p])
         IN  /\ uploadHistory' = uploadHistory /\ files' = files
             /\ proc'[p].result = "returned" /\ proc'[p].key = proc[p].key
             /\ proc'[p].appended
             /\ Len(es1) = Len(es) + 2 /\ SubSeq(es1, 1, Len(es)) = es
             /\ es1[Len(es1)] = UploadProgress("complete", 100,
                                   "Upload successfully completed", proc[p].key)
             /\ es1[Len(es) + 1].stage = "processing"
             /\ es1[Len(es) + 1].progress = 95
             /\ es1[Len(es) + 1].key = proc[p].key
             /\ \/ /\ es1[Len(es) + 1].msg = "Transcription in progress"
                   /\ Answered(proc[p]) /\ ResponseOk(proc[p].resp)
                \/ /\ es1[Len(es) + 1].msg = "Transcription skipped"
                   /\ Answered(proc[p]) /\ ~ResponseOk(proc[p].resp)
                \/ es1[Len(es) + 1].msg = "Transcription skipped due to error"
    ]_vars

\* a call whose kick-off request was answered with a failure has returned,
\* its recording in the history
KickoffNeverFailsUploadWitness ==
  \E p \in Uploads :
    /\ ReturnedComplete(proc[p])
    /\ proc[p].key \in HistoryKeys
    /\ \E i \in 1..Len(proc[p].events) :
         /\ proc[p].events[i].progress = 95
         /\ proc[p].events[i].msg = "Transcription skipped"

(* ------------- the order of the history (SpecUploads) ------------------ *)
\* C26: the in-memory history is ordered most-recent-first: no recording
\* comes before one with a later timestamp
HistoryNewestFirst ==
  \A i \in 1..Len(uploadHistory), j \in 1..Len(uploadHistory) :
    i < j => files[uploadHistory[i]].timestamp >= files[uploadHistory[j]].timestamp

(* ------------- the catch block of uploadAudio on its own: SpecClassify - *)
\* greatest number of fragments an error message is put together from
MaxFragments == 2

\* message.includes(sub)
Includes(message, sub) ==
  \E i \in 1..(Len(message) - Len(sub) + 1) :
    SubSeq(message, i, i + Len(sub) - 1) = sub

\* mutant: the network test is made before the timeout test
EnhancedErrorNetworkFirst(message) ==
  IF Includes(message, "AccessDenied") THEN "AccessDenied"
  ELSE IF Includes(message, "NoSuchBucket") THEN "BucketMissing"
  ELSE IF Includes(message, "network") \/ Includes(message, "ENOTFOUND")
  THEN "Network"
  ELSE IF Includes(message, "timeout") \/ Includes(message, "timed out")
  THEN "Timeout"
  ELSE IF Includes(message, "CORS") \/ Includes(message, "cors") THEN "CORS"
  ELSE "Unclassified"

\* the if / else-if chain of the catch block on error.message: the class
\* of the enhanced error
EnhancedError(message) ==
  IF Includes(message, "AccessDenied") THEN "AccessDenied"
  ELSE IF Includes(message, "NoSuchBucket") THEN "BucketMissing"
  ELSE IF Includes(message, "timeout") \/ Includes(message, "timed out")
  THEN "Timeout"
  ELSE IF Includes(message, "network") \/ Includes(message, "ENOTFOUND")
  THEN "Network"
  ELSE IF Includes(message, "CORS") \/ Includes(message, "cors") THEN "CORS"
  ELSE "Unclassified"

\* reject(new Error("Upload timed out after 60 seconds"))
TimerMessage == "Upload timed out after 60 seconds"

\* what the messages of a rejected putObject are put together from: the
\* markers, markers in another case, halves of a marker, and other text
Fragments ==
  {"AccessDenied", "NoSuchBucket", "timeout", "timed out", "network",
   "ENOTFOUND", "CORS", "cors", "Timeout", "net", "work", " ", "other"}

\* the fragments, one after the other
JoinFragments(fs) ==
  LET f[i \in 0..Len(fs)] == IF i = 0 THEN "" ELSE f[i - 1] \o fs[i]
  IN  f[Len(fs)]

RejectionMessages ==
  PutErrors \cup
  UNION {{JoinFragments(fs) : fs \in [1..n -> Fragments]} : n \in 1..MaxFragments}

\* one error reaches the catch block: the rejection of putObject, with any
\* message, or the error of the 60 s timer
InitClassify ==
  \E source \in {"putObject", "uploadTimeout"}, message \in RejectionMessages :
    /\ r2Config = [x \in ConfigFields |-> TRUE]
    /\ r2UploadService = "ready"
    /\ uploadHistory = <<>> /\ files = <<>> /\ store = <<>>
    /\ clock = Clock0
    /\ proc = <<[kind |-> "uploadAudio.catch", pc |-> "idle", source |-> source,
                 text |-> IF source = "uploadTimeout" THEN TimerMessage ELSE message,
                 result |-> "none", value |-> ""]>>

\* the catch block runs and the enhanced error is thrown
uploadCatch(p) ==
  /\ proc[p].kind = "uploadAudio.catch" /\ proc[p].pc = "idle"
  /\ proc' = [proc EXCEPT ![p].pc = "done", ![p].result = "raised",
                          ![p].value = EnhancedError(proc[p].text)]
  /\ UNCHANGED <<r2Config, r2UploadService, uploadHistory, files, store, clock>>

NextClassify == \E p \in Slots : uploadCatch(p)

SpecClassify == InitClassify /\ [][NextClassify]_vars

Catches == {p \in Slots : proc[p].kind = "uploadAudio.catch"}

\* the markers of each class, in the order of the claim
MarkerOrder ==
  <<[class |-> "AccessDenied", markers |-> {"AccessDenied"}],
    [class |-> "BucketMissing", markers |-> {"NoSuchBucket"}],
    [class |-> "Timeout", markers |-> {"timeout", "timed out"}],
    [class |-> "Network", markers |-> {"network", "ENOTFOUND"}],
    [class |-> "CORS", markers |-> {"CORS", "cors"}]>>

\* the places in the order whose markers the message contains
MarkersHit(message) ==
  {i \in 1..Len(MarkerOrder) :
     \E m \in MarkerOrder[i].markers : Includes(message, m)}

\* C27: the class of the error thrown is the class of the earliest place in
\* the order AccessDenied, NoSuchBucket, timeout, network, CORS of which the
\* message contains a marker, and unclassified when it contains none; the
\* error of the 60 s timer is classified as Timeout; and the class the
\* calls of the other specifications are given is this one
ClassifiedInOrder ==
  \A p \in Catches :
    proc[p].pc = "done" =>
      LET hit == MarkersHit(proc[p].text)
      IN  /\ hit = {} => proc[p].value = "Unclassified"
          /\ hit # {} =>
               proc[p].value =
                 MarkerOrder[CHOOSE i \in hit : \A j \in hit : i <= j].class
          /\ proc[p].source = "uploadTimeout" => proc[p].value = "Timeout"
          /\ proc[p].text \in PutErrors \cup {TimerMessage}
               => ClassifyUploadError(proc[p].text) = proc[p].value

\* a message with the network marker before the timeout marker was
\* classified as Timeout
ClassifiedInOrderWitness ==
  \E p \in Catches :
    /\ proc[p].pc = "done"
    /\ proc[p].text = "network" \o "timeout"
    /\ proc[p].value = "Timeout"

(* ------------- a provider failure, end to end: SpecProviderError ------- *)
\* throw new Error("API key not configured. Please set OPENAI_API_KEY ...")
NoApiKeyError ==
  "API key not configured. Please set OPENAI_API_KEY in worker environment"

\* `Transcription API error: ${status} ${statusText}${errorBody ? ` - ${errorBody}` : ""}`
ProviderApiError(status, errorBody) ==
  "Transcription API error: " \o status
    \o (IF errorBody # "" THEN " - " \o errorBody ELSE "")

\* the error sendToTranscriptionService throws, which the endpoint answers
\* with status 500 as the error member of a JSON body
WorkerErrorText(hasApiKey, status, errorBody) ==
  IF ~hasApiKey THEN NoApiKeyError ELSE ProviderApiError(status, errorBody)

\* the message thrown for the three substrings the handler looks for
CanonicalKeyError ==
  "OpenAI API key not configured or invalid. Please configure it in the Cloudflare worker."

\* the handler, for a non-success answer whose body was parsed: the message
\* of the error it throws, which the failure status carries
TranscribeErrorText(errorDataError) ==
  LET errorMessage == IF errorDataError = "" THEN "Transcription failed"
                      ELSE errorDataError
  IN  IF \/ Includes(errorMessage, "API key not configured")
         \/ Includes(errorMessage, "Invalid API key")
         \/ Includes(errorMessage, "Authentication")
      THEN CanonicalKeyError
      ELSE errorMessage

\* status and status text of a non-success answer of the provider
ProviderStatuses ==
  {"401 Unauthorized", "429 Too Many Requests", "500 Internal Server Error"}

\* what the error body of the provider is put together from
BodyFragments ==
  {"Incorrect API key provided", "Invalid API key", "API key", "Authentication",
   "authentication", "Rate limit reached", " "}

ProviderBodies ==
  {""} \cup
  UNION {{JoinFragments(fs) : fs \in [1..n -> BodyFragments]} : n \in 1..MaxFragments}

\* one transcription request that the provider does not serve: the worker
\* has no API key, or the provider answers with a non-success status
InitProviderError ==
  \E hasApiKey \in BOOLEAN, status \in ProviderStatuses, body \in ProviderBodies :
    /\ r2Config = [x \in ConfigFields |-> TRUE]
    /\ r2UploadService = "ready"
    /\ uploadHistory = <<>> /\ files = <<>> /\ store = <<>>
    /\ clock = Clock0
    /\ proc = <<[kind |-> "sendToTranscriptionService", pc |-> "idle",
                 hasApiKey |-> hasApiKey,
                 status |-> IF hasApiKey THEN status ELSE "",
                 body |-> IF hasApiKey THEN body ELSE "",
                 text |-> "", result |-> "none", value |-> ""]>>

\* sendToTranscriptionService throws and the endpoint answers 500 with the
\* message of the error
sendToTranscriptionService(p) ==
  /\ proc[p].kind = "sendToTranscriptionService" /\ proc[p].pc = "idle"
  /\ proc' = [proc EXCEPT ![p].pc = "answered",
                          ![p].text = WorkerErrorText(proc[p].hasApiKey,
                                                      proc[p].status, proc[p].body)]
  /\ UNCHANGED <<r2Config, r2UploadService, uploadHistory, files, store, clock>>

\* the handler has parsed the body of the answer and throws; the catch
\* block sends the failure status with the message
transcribeErrorBody(p) ==
  /\ proc[p].kind = "sendToTranscriptionService" /\ proc[p].pc = "answered"
  /\ proc' = [proc EXCEPT ![p].pc = "done", ![p].result = "failed",
                          ![p].value = TranscribeErrorText(proc[p].text)]
  /\ UNCHANGED <<r2Config, r2UploadService, uploadHistory, files, store, clock>>

NextProviderError ==
  \/ \E p \in Slots : sendToTranscriptionService(p)
  \/ \E p \in Slots : transcribeErrorBody(p)

SpecProviderError == InitProviderError /\ [][NextProviderError]_vars

ProviderErrors == {p \in Slots : proc[p].kind = "sendToTranscriptionService"}

\* C28: when the error text of a non-success answer contains "API key" or
\* "Authentication", the failure status of the command carries the one
\* canonical configuration-error message
ApiKeyErrorsCanonical ==
  \A p \in ProviderErrors :
    (/\ proc[p].pc = "done"
     /\ Includes(proc[p].text, "API key") \/ Includes(proc[p].text, "Authentication"))
      => proc[p].value = CanonicalKeyError

(* ------------- what loadHistory lists (Spec) --------------------------- *)
\* the listing reaches the loadHistory call of slot p in this step
ListingArrives(p) ==
  /\ proc[p].pc = "list" /\ proc[p].io = "listServed" /\ proc[p].resp = "ok"
  /\ proc'[p].pc # "list"

\* the key ends in .webm and has no /transcriptions/ segment
RecordingKey(key) == key.ext = "webm" /\ key.folder # TRANSCRIPT_FOLDER

\* C29: the list loadHistory builds from a listing holds exactly the
\* objects of the listing whose key ends in .webm and has no
\* /transcriptions/ segment, each once, and becomes the in-memory history;
\* no recording of the history ever has the key of a transcript
OnlyRecordingsListed ==
  [][/\ \A p \in Loads :
          ListingArrives(p) =>
            /\ KeysOf(proc'[p].returned) =
                 {k \in KeysOf(proc[p].listing) : RecordingKey(k)}
            /\ Len(proc'[p].returned) = Cardinality(KeysOf(proc'[p].returned))
            /\ \A i \in 1..Len(proc'[p].returned) :
                 \E j \in 1..Len(proc[p].listing) :
                   /\ proc[p].listing[j].key = proc'[p].returned[i].key
                   /\ proc[p].listing[j].size = proc'[p].returned[i].size
            /\ [i \in 1..Len(uploadHistory') |-> files'[uploadHistory'[i]]]
                 = proc'[p].returned
     /\ \A i \in 1..Len(uploadHistory') : RecordingKey(files'[uploadHistory'[i]].key)
    ]_vars

\* a loadHistory call that started after an upload whose transcript was
\* already stored has returned: the recording is listed, the transcript
\* object is in the store
OnlyRecordingsListedWitness ==
  \E p \in Loads, u \in Uploads :
    /\ proc[p].result = "returned"
    /\ proc[u].key \in proc[p].uploadedBefore
    /\ proc[u].key \in KeysOf(proc[p].returned)
    /\ TranscriptionKey(proc[u].key) \in StoreKeys(store)
    /\ \E i \in 1..Len(proc[u].events) :
         proc[u].events[i].msg = "Transcription in progress"

(* ------------- history requests: SpecHistory --------------------------- *)
\* the transcripts of the recordings of earlier sessions whose number is in
\* the set done
TranscribedBefore(n, done) ==
  SelectSeq([i \in 1..n |-> [key |-> TranscriptionKey(MakeKey(i, 1)), size |-> 1]],
            LAMBDA o : o.key.ts \in done)

\* any configuration; up to MaxStored + 1 recordings in the bucket, some of
\* them transcribed; a get-audio-history command next to a second one or to
\* a delete-audio command
InitHistory ==
  \E cfg \in Configs, n \in 0..(MaxStored + 1), loaded \in BOOLEAN,
     other \in {"get-audio-history", "delete-audio"} :
    \E done \in SUBSET (1..n) :
      /\ r2Config = cfg
      /\ r2UploadService = InitialService(cfg)
      /\ store = StoredBefore(n) \o TranscribedBefore(n, done)
      /\ clock = Clock0
      /\ proc = [q \in 1..2 |-> IdleProc(<<"get-audio-history", other>>[q])]
      /\ LET vals == IF loaded /\ InitialService(cfg) = "ready"
                     THEN LoadedFiles(ListObjectsV2(StoredBefore(n)), Clock0)
                     ELSE <<>>
         IN  /\ uploadHistory = [i \in 1..Len(vals) |-> i]
             /\ files = [i \in 1..Len(vals) |-> vals[i]]

NextHistory ==
  \/ \E p \in Slots : getAudioHistory(p)
  \/ \E p \in Slots : listObjectsV2(p)
  \/ \E p \in Slots : loadHistoryResume(p)
  \/ \E p \in Slots : sendAudioHistoryProbe(p)
  \/ \E p \in Slots : deleteAudioCommand(p)
  \/ \E p \in Slots : deleteObject(p)
  \/ \E p \in Slots : deleteAudioResume(p)

SpecHistory == InitHistory /\ [][NextHistory]_vars

HistoryRequests == {p \in Slots : proc[p].kind = "get-audio-history"}

IsAudioHistory(e) == e.ch = "audio-history"
HistoryEvents(r) == SelectSeq(r.events, IsAudioHistory)

\* the audio-history event of slot p is sent in this step
HistorySent(p) ==
  HistoryEvents(proc[p]) = <<>> /\ HistoryEvents(proc'[p]) # <<>>

\* the getObject probe of slot p is answered in this step
ProbeAnswered(p) ==
  proc[p].pc = "probe" /\ proc[p].io = "getSent" /\ StepOf(p)

\* the array sendAudioHistory of slot p works on, as the step leaves it
ArrayOf(p) ==
  IF proc[p].pc = "probe" /\ ~proc[p].alias THEN proc[p].audioFiles
  ELSE uploadHistory'

InitTranscriptPair ==
  \E key \in RawKeyTexts \ {<<>>}, envWorker \in FolderSettings,
     envClient \in FolderSettings :
    /\ r2Config = [x \in ConfigFields |-> TRUE]
    /\ r2UploadService = "ready"
    /\ uploadHistory = <<>> /\ files = <<>> /\ store = <<>>
    /\ clock = Clock0
    /\ proc = <<[kind |-> "/transcribe", pc |-> "idle", text |-> key,
                 env |-> envWorker, result |-> "none", value |-> <<>>],
                [kind |-> "sendAudioHistory", pc |-> "idle", text |-> key,
                 env |-> envClient, result |-> "none", value |-> <<>>]>>

SpecTranscriptPair == InitTranscriptPair /\ [][NextTranscriptKey]_vars

\* C31: the transcript key under which the endpoint stores the result of a
\* raw key is the transcript key the client probes for that raw key
TranscriptKeysAgree ==
  \A p, q \in KeyDerivations :
    (/\ proc[p].kind = "/transcribe" /\ proc[q].kind = "sendAudioHistory"
     /\ proc[p].result = "returned" /\ proc[q].result = "returned"
     /\ proc[p].text = proc[q].text)
    => proc[p].value = proc[q].value

(* ---------------- the history against late listings (Spec) ------------- *)
\* C32: the key of an uploadAudio call that has returned is in the in-memory
\* history (no deleteAudio call is made in this specification)
ReturnedKeyStaysListed ==
  \A p \in Uploads :
    proc[p].result = "returned" => proc[p].key \in HistoryKeys

\* C33: no key occurs more than once in the in-memory history
HistoryKeysDistinct ==
  \A i, j \in 1..Len(uploadHistory) :
    i # j => files[uploadHistory[i]].key # files[uploadHistory[j]].key

(* ------------- the history against late listings (SpecDelete) ---------- *)
\* C34: the step in which a loadHistory call finishes, its listing holding
\* a key K that a deleteAudio call has deleted and returned from since,
\* leaves the in-memory history without K
StaleListingNotRestored ==
  [][\A q \in Loads, p \in Deletes :
       (/\ proc[q].pc = "list" /\ proc'[q].pc = "done"
        /\ proc[p].result = "returned"
        /\ proc[p].key \in KeysOf(proc[q].listing))
         => proc[p].key \notin HistoryKeys'
    ]_vars

(* ------------- history events after a delete (SpecHistory) ------------- *)
\* the 'deleted successfully' status of a delete-audio command is among the
\* events of r
DeletedStatusSent(r) ==
  \E i \in 1..Len(r.events) :
    /\ r.events[i].ch = "upload-status"
    /\ r.events[i].msg = "Audio file deleted successfully"

\* C35: an audio-history event sent after the 'deleted successfully' status
\* of a delete-audio command for key K does not list K, whichever request
\* sends it
DeletedKeyNotSentAgain ==
  [][\A q \in Slots, p \in DeleteCommands :
       (/\ HistorySent(q)
        /\ IF q = p THEN DeletedStatusSent(proc'[p])
                    ELSE DeletedStatusSent(proc[p]))
         => proc[p].key \notin KeysOf(HistoryEvents(proc'[q])[1].list)
    ]_vars

\* the store's answer to deleteObject of slot p, a refusal, arrives in this
\* step
DeleteRefusalArrives(p) ==
  /\ proc[p].pc = "delete" /\ proc[p].io = "deleteServed"
  /\ proc[p].resp = "error" /\ StepOf(p)

\* C36: when the store refuses deleteObject, deleteAudio raises and leaves
\* the in-memory history as it was, a listed key staying listed, and the
\* delete-audio command ends having sent one error status and no
\* audio-history event
FailedDeleteKeepsHistory ==
  [][\A p \in DeleteCommands :
       DeleteRefusalArrives(p) =>
         /\ proc'[p].result = "raised" /\ proc'[p].pc = "done"
         /\ uploadHistory' = uploadHistory
         /\ \A i \in Range(uploadHistory) : files'[i] = files[i]
         /\ proc[p].key \in HistoryKeys => proc[p].key \in HistoryKeys'
         /\ proc'[p].events = <<UploadStatus("Error deleting audio", proc[p].key)>>
         /\ HistoryEvents(proc'[p]) = <<>>
    ]_vars

\* the store refused to delete a listed recording while a history request
\* was probing: the command ended with its error status, the key listed
FailedDeleteKeepsHistoryWitness ==
  \E p \in DeleteCommands, q \in HistoryRequests :
    /\ proc[p].pc = "done" /\ proc[p].result = "raised"
    /\ proc[p].key \in HistoryKeys /\ proc[p].key \in StoreKeys(store)
    /\ Len(proc[p].events) = 1
    /\ proc[q].pc = "probe"

(* --------------- the end of an uploadAudio call: SpecLive -------------- *)
\* the store answers every putObject, the answer reaches the client and the
\* 60 s timer fires; nothing makes the endpoint or the network settle the
\* kick-off request
SpecLive ==
  /\ Init /\ [][Next]_vars
  /\ WF_vars(\E p \in Slots : putObject(p))
  /\ WF_vars(\E p \in Slots : uploadPromise(p))
  /\ WF_vars(\E p \in Slots : uploadTimeout(p))

\* C37: an uploadAudio call (the first slot) that has started eventually
\* returns a key or raises
UploadEventuallyEnds ==
  (proc[1].kind = "uploadAudio" /\ proc[1].pc # "idle")
    ~> (proc[1].result \in {"returned", "raised"})

(* ---------- startup with a missing required field: SpecStartup --------- *)
\* the main process before app.on("ready"): mainWindow and r2UploadService
\* are null; one command the window may send later
AppProc == IdleProc("ready") @@ [mainWindow |-> "null"]

InitStartup ==
  \E cfg \in Configs \ CompleteConfigs, n \in 0..MaxStored,
     kind \in {"audio-data", "get-audio-history", "delete-audio",
               "transcribe-audio"} :
    /\ r2Config = cfg
    /\ r2UploadService = "null"
    /\ store = StoredBefore(n)
    /\ clock = Clock0
    /\ uploadHistory = <<>> /\ files = <<>>
    /\ proc = <<AppProc, IdleProc(kind)>>

\* app.on("ready"): initializeR2Service(), then createWindow(). The
\* constructor throws on a missing required field; the exception leaves
\* the listener before createWindow() is reached
appReady(p) ==
  /\ proc[p].kind = "ready" /\ proc[p].pc = "idle"
  /\ IF InitialService(r2Config) = "ready"
     THEN /\ r2UploadService' = "ready"
          /\ proc' = [proc EXCEPT ![p].pc = "done", ![p].result = "returned",
                                  ![p].mainWindow = "window"]
     ELSE /\ r2UploadService' = r2UploadService
          /\ proc' = [proc EXCEPT ![p].pc = "done", ![p].result = "raised",
                                  ![p].error = "R2 service initialization failed"]
  /\ UNCHANGED <<r2Config, uploadHistory, files, store, clock>>

\* app.on("activate"), sent on macOS only: if (mainWindow === null)
\* createWindow()
appActivate(p) ==
  /\ proc[p].kind = "ready" /\ proc[p].pc = "done"
  /\ proc[p].mainWindow = "null"
  /\ proc' = [proc EXCEPT ![p].mainWindow = "window"]
  /\ UNCHANGED <<r2Config, r2UploadService, uploadHistory, files, store, clock>>

\* commands come from the renderer of the window
HasWindow ==
  \E q \in Slots : proc[q].kind = "ready" /\ proc[q].mainWindow = "window"

NextStartup ==
  \/ \E p \in Slots : appReady(p)
  \/ \E p \in Slots : appActivate(p)
  \/ HasWindow /\ \E p \in Slots : audioData(p)
  \/ HasWindow /\ \E p \in Slots : getAudioHistory(p)
  \/ HasWindow /\ \E p \in Slots : deleteAudioCommand(p)
  \/ HasWindow /\ \E p \in Slots : transcribeAudio(p)

SpecStartup == InitStartup /\ [][NextStartup]_vars

\* the status and result events of a command
IsAnswer(e) ==
  e.ch \in {"upload-status", "audio-history", "transcription-status"}

\* C38: with a required field missing, the ready listener has created the
\* window when it is over, and a command that has ended has been answered
\* with a status or result event
StartupSurvivesMissingConfig ==
  \A p \in Slots :
    IF proc[p].kind = "ready"
    THEN proc[p].pc = "done" => proc[p].mainWindow = "window"
    ELSE proc[p].pc = "done" => SelectSeq(proc[p].events, IsAnswer) # <<>>

(* ------- the status of a failed upload, as text: SpecReport ------------ *)
\* the message of the enhanced error uploadAudio throws for a class
EnhancedMessage(class, bucketName, message) ==
  CASE class = "AccessDenied" ->
         "Access denied to R2 bucket '" \o bucketName
           \o "'. Check your credentials and permissions."
    [] class = "BucketMissing" ->
         "Bucket '" \o bucketName
           \o "' does not exist. Please verify the bucket name."
    [] class = "Timeout" ->
         "Upload timed out. Please check your network connection."
    [] class = "Network" ->
         "Network error. Please check your internet connection."
    [] class = "CORS" ->
         "CORS error. Your R2 bucket may need CORS configuration."
    [] OTHER -> "Failed to upload audio to R2: " \o message

NetworkStatus ==
  "Network error while uploading audio. Please check your internet connection."
TimeoutStatus == "Upload timed out. Please try again later."
CredentialsStatus == "Authentication error. Please check your R2 credentials."
BucketStatus ==
  "R2 bucket error. Please verify your bucket name and permissions."

\* the if / else-if chain of the audio-data handler's catch block on the
\* name and the message of the error uploadAudio threw
HandlerStatus(name, message) ==
  IF name = "NetworkError" \/ Includes(message, "network") THEN NetworkStatus
  ELSE IF name = "TimeoutError" \/ Includes(message, "timeout") THEN TimeoutStatus
  ELSE IF Includes(message, "credentials") \/ Includes(message, "authentication")
  THEN CredentialsStatus
  ELSE IF Includes(message, "bucket") THEN BucketStatus
  ELSE "Error uploading audio: " \o message

\* the bucket names of the configuration
BucketNames == {"recordings", "net-audio"}

\* one error reaches the catch block of uploadAudio, as in SpecClassify,
\* the call having been made by the audio-data handler
InitReport ==
  \E source \in {"putObject", "uploadTimeout"}, message \in RejectionMessages,
     bucketName \in BucketNames :
    /\ r2Config = [x \in ConfigFields |-> TRUE]
    /\ r2UploadService = "ready"
    /\ uploadHistory = <<>> /\ files = <<>> /\ store = <<>>
    /\ clock = Clock0
    /\ proc = <<[kind |-> "uploadAudio.catch", pc |-> "idle", source |-> source,
                 text |-> IF source = "uploadTimeout" THEN TimerMessage ELSE message,
                 bucketName |-> bucketName,
                 result |-> "none", value |-> "", status |-> ""]>>

\* the catch block of the audio-data handler runs on the enhanced error,
\* an Error whose name is "Error", and sends the status
audioDataCatch(p) ==
  /\ proc[p].kind = "uploadAudio.catch" /\ proc[p].result = "raised"
  /\ proc[p].status = ""
  /\ proc' = [proc EXCEPT ![p].status =
                HandlerStatus("Error",
                              EnhancedMessage(proc[p].value, proc[p].bucketName,
                                              proc[p].text))]
  /\ UNCHANGED <<r2Config, r2UploadService, uploadHistory, files, store, clock>>

NextReport ==
  \/ \E p \in Slots : uploadCatch(p)
  \/ \E p \in Slots : audioDataCatch(p)

SpecReport == InitReport /\ [][NextReport]_vars

\* C39: the status sent for an upload that failed because the 60 s timer
\* fired is the timeout status
TimeoutReportedAsTimeout ==
  \A p \in Catches :
    (proc[p].source = "uploadTimeout" /\ proc[p].status # "")
      => proc[p].status = TimeoutStatus

(* ---- a generated key read back by extractTimestampFromKey: SpecRoundTrip *)
\* mutant: only the colons of the ISO text are replaced
KeyStampColonsOnly(iso) == ReplaceAll(iso, {":"}, "-")

\* now.toISOString().replace(/[:.]/g, "-")
KeyStamp(iso) == ReplaceAll(iso, {":", "."}, "-")

\* `${process.env.R2_FOLDER_NAME}/${timestamp}-${uniqueId}.webm`
MakeKeyText(folder, at, uniqueId) ==
  folder \o <<"/">> \o KeyStamp(ToISOString(at)) \o <<"-">> \o uniqueId \o WebmText

\* the instants of the uploads: first and last millisecond of a day, a leap
\* day, the ends of a year, of a century and of the four-digit years
UploadInstants ==
  {Instant(day, ms) :
     day \in {0, DaysFromCivil(1999, 12, 31), DaysFromCivil(2024, 2, 29),
              DaysFromCivil(2024, 3, 1), DaysFromCivil(9999, 12, 31)},
     ms \in {0, 999, 37845123, 43200000, 86399999}}

\* uuidv4().substring(0, 8): hexadecimal digits, lower case
UniqueIdTexts ==
  {UidText(1), <<"1", "2", "3", "4", "5", "6", "7", "8">>,
   <<"a", "b", "c", "d", "e", "f", "a", "b">>}

\* process.env.R2_FOLDER_NAME: "audio", unset, a name with digits
FolderTexts ==
  {FolderText, <<"u", "n", "d", "e", "f", "i", "n", "e", "d">>,
   <<"r", "e", "c", "-", "2", "0", "2", "4", "-", "0", "1">>}

\* an upload at the instant at, and a loadHistory call that reads the key
\* back at the later instant now
InitRoundTrip ==
  \E at \in UploadInstants, uid \in UniqueIdTexts, folder \in FolderTexts,
     now \in CallInstants :
    /\ r2Config = [x \in ConfigFields |-> TRUE]
    /\ r2UploadService = "ready"
    /\ uploadHistory = <<>> /\ files = <<>> /\ store = <<>>
    /\ clock = Clock0
    /\ proc = <<[kind |-> "extractTimestampFromKey", pc |-> "key",
                 at |-> at, folder |-> folder, uid |-> uid, text |-> <<>>,
                 timestamp |-> <<>>, now |-> now, result |-> "none",
                 error |-> "", value |-> <<>>]>>

\* uploadAudio builds the key and the recording's timestamp from the same
\* Date: key (220-223), timestamp: now.toISOString() (353)
uploadAudioKey(p) ==
  /\ proc[p].kind = "extractTimestampFromKey" /\ proc[p].pc = "key"
  /\ proc' = [proc EXCEPT ![p].pc = "idle",
                          ![p].text = MakeKeyText(proc[p].folder, proc[p].at,
                                                  proc[p].uid),
                          ![p].timestamp = ToISOString(proc[p].at)]
  /\ UNCHANGED <<r2Config, r2UploadService, uploadHistory, files, store, clock>>

NextRoundTrip ==
  \/ \E p \in Slots : uploadAudioKey(p)
  \/ \E p \in Slots : extractTimestampCall(p)

SpecRoundTrip == InitRoundTrip /\ [][NextRoundTrip]_vars

\* C40: extractTimestampFromKey applied to a key uploadAudio generated
\* throws nothing inside and returns the text of the instant the key was
\* built from: the timestamp the upload gave the recording, which parses
\* back to that instant
GeneratedKeyRoundTrip ==
  \A p \in ExtractCalls :
    proc[p].pc = "done" =>
      /\ proc[p].error = ""
      /\ proc[p].value = proc[p].timestamp
      /\ proc[p].value = ToISOString(proc[p].at)
      /\ DateParse(proc[p].value) =
           [valid |-> TRUE, day |-> proc[p].at.day, ms |-> proc[p].at.ms]

\* the key of an upload in the last millisecond of a leap day was read back
\* at another instant
GeneratedKeyRoundTripWitness ==
  \E p \in ExtractCalls :
    /\ proc[p].pc = "done"
    /\ proc[p].at = Instant(DaysFromCivil(2024, 2, 29), 86399999)
    /\ proc[p].now # proc[p].at
    /\ proc[p].text = FolderText \o <<"/">>
         \o <<"2", "0", "2", "4", "-", "0", "2", "-", "2", "9", "T", "2", "3",
              "-", "5", "9", "-", "5", "9", "-", "9", "9", "9", "Z">>
         \o <<"-">> \o UidText(1) \o WebmText
    /\ proc[p].value = proc[p].timestamp

====
